---- MODULE Spec2Model ----
(***************************************************************************)
(* Verification model of the postgres-db-app desktop client.               *)
(*                                                                         *)
(*  Part I   Connection Pool Manager   (src/main/db/client.ts)             *)
(*  Part II  Table Data Fetcher        (src/main/ipc/schema.ts)            *)
(*  Part III Table Browser Controller  (renderer TableBrowser/ResultsGrid) *)
(*  Part IV  Query History             (src/main/ipc/history.ts)          *)
(*  Part V   Status Bar latency probe  (renderer StatusBar/StatusBar.tsx) *)
(*                                                                         *)
(* Every async function is a process whose program counter names the await *)
(* it is suspended at; one action is the code between two awaits.          *)
(***************************************************************************)
EXTENDS Integers, Sequences, FiniteSets, TLC

\* ------------------------------------------------------------------ bounds
MaxConns == 2
MaxPools == 3
MaxCalls == 2
MaxRows == 2
MaxLimit == 2
MaxTermLen == 1
\* TableBrowser.tsx:27 has PAGE_SIZE = 200; the model pages a table of three
\* rows, so the page is scaled down to keep more than one page.
PAGE_SIZE == 2
\* how many user gestures a run of the browser explores
MaxGestures == 4
\* how many asynchronous flows of the browser are in flight at once
MaxTasks == 2
\* history.ts:5 has MAX_HISTORY = 500; the cap is scaled down so that a few
\* history:add calls reach it.
MAX_HISTORY == 3
\* how many history:add calls a run explores
MaxAdds == 5
\* how many setInterval calls a run of the status bar explores
MaxTimers == 3
\* how many measure() calls of the status bar are in flight at once
MaxMeasures == 2

ConnIds == 1..MaxConns
PoolIds == 1..MaxPools
Calls   == 1..MaxCalls
NoPool  == 0

VARIABLES
  pools,       \* client.ts:4   Map<string, Pool>: ConnIds -> PoolIds \cup {NoPool}
  poolStatus,  \* every Pool object ever constructed: "none" | "created" | "live" | "ended"
  nextPool,    \* number of Pool objects constructed so far
  pc,          \* per call: the await the call is suspended at
  op,          \* per call: the exported function that was called
  arg,         \* per call: the connection id argument
  loc,         \* per call: the local variable `pool`
  snap,        \* per call: the registry as it was when the call started
  qfail,       \* per call: whether the awaited query rejected
  res,         \* per call: how the call completed
  tbl,         \* the backend table "schema"."table": its rows, in heap order
  pkCols,      \* the table's primary-key columns, in attribute order
  colTypes,    \* information_schema.columns.data_type of every column
  reply,       \* the outcome of the IPC handler that ran last
  ui,          \* TableBrowser.tsx:33-58  the component's useState values
  tableData,   \* tab.tableData in the app store: the page that is displayed
  tasks,       \* the browser's async flows in flight, each suspended at an await
  gestures,    \* number of user gestures handled so far
  toast,       \* the toast() call of the step just taken, if it made one
  queryHistory,   \* store.ts:51  the persisted list of history entries
  uuids,          \* number of randomUUID() results handed out so far
  historyReply,   \* the history handler that ran last: its argument and result
  store,       \* useAppStore: activeConnectionId, connectedIds, latency
  statusBar,   \* the StatusBar component: its ref and its latency effect
  timers,      \* every setInterval timer ever started: its connection, live or cleared
  measures     \* the measure() calls in flight, each suspended at an await

poolVars == <<pools, poolStatus, nextPool, pc, op, arg, loc, snap, qfail, res>>

rpcVars == <<tbl, pkCols, colTypes, reply>>

browserVars == <<ui, tableData, tasks, gestures, toast>>

historyVars == <<queryHistory, uuids, historyReply>>

statusVars == <<store, statusBar, timers, measures>>

vars == <<pools, poolStatus, nextPool, pc, op, arg, loc, snap, qfail, res,
          tbl, pkCols, colTypes, reply, ui, tableData, tasks, gestures, toast,
          queryHistory, uuids, historyReply, store, statusBar, timers, measures>>

\* TableBrowser.tsx:33-58  the initial values of the component's state.  A
\* SortState of null is the record with an empty column; text is a sequence of
\* one-character strings; a Map or Set is the sequence of its entries in
\* insertion order; a scrollToRow of undefined is -1.
UiAtMount ==
  [page |-> 0, loading |-> FALSE, sortState |-> [column |-> "", dir |-> ""],
   filterMode |-> "query", filterInput |-> <<>>, activeFilter |-> <<>>,
   filterError |-> <<>>, searchTerm |-> <<>>, matchRows |-> <<>>,
   matchIdx |-> -1, searchDone |-> FALSE, selectedRows |-> <<>>,
   pendingNewRow |-> FALSE, deleting |-> FALSE, saving |-> FALSE,
   showRefreshDialog |-> FALSE, showDeleteDialog |-> FALSE,
   pendingEdits |-> <<>>, newRowValues |-> <<>>, scrollToRow |-> -1]

\* tab.tableData before the first page has arrived (`filter` is history, not
\* program state: the filter of the fetch whose reply is displayed)
NoTableData == [loaded |-> FALSE, rows |-> <<>>, total |-> 0, filter |-> <<>>]

\* use-toast: toast({ title, description }).  `count` holds the numbers the
\* title interpolates, `errors` the items the description lists; the text of
\* a backend message is left out.
Toast(title, count, errors) == [title |-> title, count |-> count, errors |-> errors]

\* the step raised no toast
NoToast == Toast("none", <<>>, <<>>)

\* no table tab is open
NoTab ==
  /\ ui = UiAtMount
  /\ tableData = NoTableData
  /\ tasks = <<>>
  /\ gestures = 0
  /\ toast = NoToast

\* no history handler has run
NoHistoryReply == [name |-> "none", connectionId |-> <<>>, value |-> <<>>]

\* store.ts:60  the store's default: no history, no handler called
NoHistory ==
  /\ queryHistory = <<>>
  /\ uuids = 0
  /\ historyReply = NoHistoryReply

\* no window is open: the store holds its defaults and no status bar exists
NoStatusBar ==
  /\ store = [activeConnectionId |-> 0, connectedIds |-> {},
              latency |-> [c \in 1..MaxConns |-> FALSE]]
  /\ statusBar = [mounted |-> FALSE,
                  deps |-> [activeConnectionId |-> 0, isConnected |-> FALSE],
                  latencyInterval |-> 0, cleanup |-> FALSE]
  /\ timers = <<>>
  /\ measures = <<>>

EmptyRegistry == [i \in ConnIds |-> NoPool]

\* client.ts:88-90
isConnected(connectionId) == pools[connectionId] # NoPool

\* A plausible slip: an unknown id falls back to some registered pool.
getPool_Fallback(connectionId) ==
  IF pools[connectionId] # NoPool THEN pools[connectionId]
  ELSE IF \E i \in ConnIds : pools[i] # NoPool
    THEN pools[CHOOSE i \in ConnIds : pools[i] # NoPool]
  ELSE NoPool

\* client.ts:6-8
getPool(connectionId) == pools[connectionId]

\* Pool objects that hold (or may hold) backend connections and on which
\* end() was never called.
OpenPools == {p \in PoolIds : poolStatus[p] = "live"}

Registered == {pools[i] : i \in ConnIds} \ {NoPool}

\* No call is suspended at an await.
NoCallInProgress == \A c \in Calls : pc[c] \in {"idle", "done"}

AllIdle == \A c \in Calls : pc[c] = "idle"

NoneDone == \A c \in Calls : pc[c] # "done"

\* Whether the lookup at the start of call c found a registered pool.
HadPool(c) == snap[c][arg[c]] # NoPool

\* The pools that were registered when call c started.
RegisteredAtStart(c) == {snap[c][i] : i \in ConnIds} \ {NoPool}

\* client.ts:4  the registry after module load, no call made yet
PoolsAtLoad ==
  /\ pools = EmptyRegistry
  /\ poolStatus = [p \in PoolIds |-> "none"]
  /\ nextPool = 0
  /\ pc = [c \in Calls |-> "idle"]
  /\ op = [c \in Calls |-> "none"]
  /\ arg = [c \in Calls |-> 0]
  /\ loc = [c \in Calls |-> NoPool]
  /\ snap = [c \in Calls |-> EmptyRegistry]
  /\ qfail = [c \in Calls |-> FALSE]
  /\ res = [c \in Calls |-> "none"]

\* Pool.end(): the pool stops handing out clients as soon as end() is called.
EndPool(status, p) == [status EXCEPT ![p] = "ended"]

\* A call starts: the caller's frame is set up.
Begin(c, name, id) ==
  /\ pc[c] = "idle"
  /\ op' = [op EXCEPT ![c] = name]
  /\ arg' = [arg EXCEPT ![c] = id]
  /\ snap' = [snap EXCEPT ![c] = pools]

\* ---------------------------------------------------------------- connect
\* connect() calls that have yet to construct their Pool object
PendingOpens == Cardinality({c \in Calls : pc[c] = "connect_awaitEnd"})

\* client.ts:16-31  decrypt, build config, new Pool(config), await pool.connect()
ConnectOpen(c, registry, status) ==
  /\ nextPool' = nextPool + 1
  /\ poolStatus' = [status EXCEPT ![nextPool + 1] = "created"]
  /\ loc' = [loc EXCEPT ![c] = nextPool + 1]
  /\ pools' = registry
  /\ pc' = [pc EXCEPT ![c] = "connect_awaitConnect"]

\* client.ts:10-12 (pool registered) or 10-31 (none registered)
ConnectStart(c, id) ==
  /\ nextPool + PendingOpens < MaxPools
  /\ Begin(c, "connect", id)
  /\ UNCHANGED <<qfail, res>>
  /\ IF pools[id] # NoPool
       THEN /\ poolStatus' = EndPool(poolStatus, pools[id])
                      /\ pc' = [pc EXCEPT ![c] = "connect_awaitEnd"]
            /\ UNCHANGED <<pools, nextPool, loc>>
       ELSE ConnectOpen(c, pools, poolStatus)

\* A plausible slip: the old entry is not deleted before the new pool is opened.
ConnectAfterEnd_KeepsOldEntry(c, ok) ==
  /\ pc[c] = "connect_awaitEnd"
  /\ ConnectOpen(c, pools, poolStatus)
  /\ UNCHANGED <<op, arg, snap, qfail, res>>

\* client.ts:12-31  end() settled (ok: resolved; ~ok: rejected, swallowed by
\* .catch), pools.delete, open the new pool
ConnectAfterEnd(c, ok) ==
  /\ pc[c] = "connect_awaitEnd"
  /\ ConnectOpen(c, [pools EXCEPT ![arg[c]] = NoPool], poolStatus)
  /\ UNCHANGED <<op, arg, snap, qfail, res>>

\* client.ts:31-34  pool.connect() resolved: release the client, register
ConnectRegister(c) ==
  /\ pc[c] = "connect_awaitConnect"
  /\ poolStatus' = [poolStatus EXCEPT ![loc[c]] = "live"]
  /\ pools' = [pools EXCEPT ![arg[c]] = loc[c]]
  /\ pc' = [pc EXCEPT ![c] = "done"]
  /\ res' = [res EXCEPT ![c] = "ok"]
  /\ UNCHANGED <<nextPool, op, arg, loc, snap, qfail>>

\* client.ts:31  pool.connect() rejected: the error leaves connect()
ConnectFail(c) ==
  /\ pc[c] = "connect_awaitConnect"
  /\ pc' = [pc EXCEPT ![c] = "done"]
  /\ res' = [res EXCEPT ![c] = "threw"]
  /\ UNCHANGED <<pools, poolStatus, nextPool, op, arg, loc, snap, qfail>>

\* ------------------------------------------------------------- disconnect
\* A plausible slip: disconnect of an unknown id is treated as an error.
DisconnectStart_ThrowIfAbsent(c, id) ==
  /\ Begin(c, "disconnect", id)
  /\ IF pools[id] # NoPool
       THEN /\ poolStatus' = EndPool(poolStatus, pools[id])
            /\ loc' = [loc EXCEPT ![c] = pools[id]]
            /\ pc' = [pc EXCEPT ![c] = "disconnect_awaitEnd"]
            /\ UNCHANGED res
       ELSE /\ pc' = [pc EXCEPT ![c] = "done"]
            /\ res' = [res EXCEPT ![c] = "threw"]
            /\ UNCHANGED <<poolStatus, loc>>
  /\ UNCHANGED <<pools, nextPool, qfail>>

\* client.ts:36-39 (pool found) or 36-42 (none)
DisconnectStart(c, id) ==
  /\ Begin(c, "disconnect", id)
  /\ IF pools[id] # NoPool
       THEN /\ poolStatus' = EndPool(poolStatus, pools[id])
            /\ loc' = [loc EXCEPT ![c] = pools[id]]
                      /\ pc' = [pc EXCEPT ![c] = "disconnect_awaitEnd"]
            /\ UNCHANGED res
       ELSE /\ pc' = [pc EXCEPT ![c] = "done"]
            /\ res' = [res EXCEPT ![c] = "ok"]
            /\ UNCHANGED <<poolStatus, loc>>
  /\ UNCHANGED <<pools, nextPool, qfail>>

\* client.ts:39-41  end() settled (ok: resolved; ~ok: rejected, swallowed by
\* .catch), pools.delete
DisconnectFinish(c, ok) ==
  /\ pc[c] = "disconnect_awaitEnd"
  /\ pools' = [pools EXCEPT ![arg[c]] = NoPool]
  /\ pc' = [pc EXCEPT ![c] = "done"]
  /\ res' = [res EXCEPT ![c] = "ok"]
  /\ qfail' = [qfail EXCEPT ![c] = ~ok]
  /\ UNCHANGED <<poolStatus, nextPool, op, arg, loc, snap>>

\* ---------------------------------------------------------- testConnection
\* client.ts:52-65  new Pool({... max: 1}), await pool.connect()
TestStart(c) ==
  /\ nextPool + PendingOpens < MaxPools
  /\ Begin(c, "testConnection", 0)
  /\ nextPool' = nextPool + 1
  /\ poolStatus' = [poolStatus EXCEPT ![nextPool + 1] = "created"]
  /\ loc' = [loc EXCEPT ![c] = nextPool + 1]
  /\ pc' = [pc EXCEPT ![c] = "test_awaitConnect"]
  /\ UNCHANGED <<pools, qfail, res>>

\* client.ts:65-66  pool.connect() resolved, await client.query('SELECT 1')
TestConnected(c) ==
  /\ pc[c] = "test_awaitConnect"
  /\ poolStatus' = [poolStatus EXCEPT ![loc[c]] = "live"]
  /\ pc' = [pc EXCEPT ![c] = "test_awaitQuery"]
  /\ UNCHANGED <<pools, nextPool, op, arg, loc, snap, qfail, res>>

\* client.ts:65,69-72  pool.connect() rejected: catch, then finally pool.end()
TestConnectFail(c) ==
  /\ pc[c] = "test_awaitConnect"
  /\ res' = [res EXCEPT ![c] = "failure"]
  /\ poolStatus' = EndPool(poolStatus, loc[c])
  /\ pc' = [pc EXCEPT ![c] = "test_awaitEnd"]
  /\ UNCHANGED <<pools, nextPool, op, arg, loc, snap, qfail>>

\* A plausible slip: the pool is ended on the success path only (no finally).
TestQueryDone_NoFinally(c, ok) ==
  /\ pc[c] = "test_awaitQuery"
  /\ res' = [res EXCEPT ![c] = IF ok THEN "success" ELSE "failure"]
  /\ qfail' = [qfail EXCEPT ![c] = ~ok]
  /\ poolStatus' = IF ok THEN EndPool(poolStatus, loc[c]) ELSE poolStatus
  /\ pc' = [pc EXCEPT ![c] = IF ok THEN "test_awaitEnd" ELSE "done"]
  /\ UNCHANGED <<pools, nextPool, op, arg, loc, snap>>

\* client.ts:66-72  the query settled: return value chosen, finally pool.end()
TestQueryDone(c, ok) ==
  /\ pc[c] = "test_awaitQuery"
  /\ res' = [res EXCEPT ![c] = IF ok THEN "success" ELSE "failure"]
  /\ qfail' = [qfail EXCEPT ![c] = ~ok]
  /\ poolStatus' = EndPool(poolStatus, loc[c])
  /\ pc' = [pc EXCEPT ![c] = "test_awaitEnd"]
  /\ UNCHANGED <<pools, nextPool, op, arg, loc, snap>>

\* client.ts:72-74  end() settled (resolved, or rejected and swallowed by
\* .catch: the same continuation), the value chosen before is returned
TestFinish(c) ==
  /\ pc[c] = "test_awaitEnd"
  /\ pc' = [pc EXCEPT ![c] = "done"]
  /\ UNCHANGED <<pools, poolStatus, nextPool, op, arg, loc, snap, qfail, res>>

\* -------------------------------------------------------------- getLatency
\* client.ts:76-81
LatencyStart(c, id) ==
  /\ Begin(c, "getLatency", id)
  /\ IF pools[id] = NoPool
       THEN /\ pc' = [pc EXCEPT ![c] = "done"]
            /\ res' = [res EXCEPT ![c] = "null"]
            /\ UNCHANGED loc
       ELSE /\ loc' = [loc EXCEPT ![c] = pools[id]]
            /\ pc' = [pc EXCEPT ![c] = "latency_awaitQuery"]
            /\ UNCHANGED res
  /\ UNCHANGED <<pools, poolStatus, nextPool, qfail>>

\* A plausible slip: the probe is not wrapped in try/catch.
LatencyDone_NoCatch(c, ok) ==
  /\ pc[c] = "latency_awaitQuery"
  /\ ok => poolStatus[loc[c]] = "live"
  /\ res' = [res EXCEPT ![c] = IF ok THEN "number" ELSE "threw"]
  /\ qfail' = [qfail EXCEPT ![c] = ~ok]
  /\ pc' = [pc EXCEPT ![c] = "done"]
  /\ UNCHANGED <<pools, poolStatus, nextPool, op, arg, loc, snap>>

\* client.ts:81-85  the probe settled; a pool on which end() was called rejects it
LatencyDone(c, ok) ==
  /\ pc[c] = "latency_awaitQuery"
  /\ ok => poolStatus[loc[c]] = "live"
  /\ res' = [res EXCEPT ![c] = IF ok THEN "number" ELSE "null"]
  /\ qfail' = [qfail EXCEPT ![c] = ~ok]
  /\ pc' = [pc EXCEPT ![c] = "done"]
  /\ UNCHANGED <<pools, poolStatus, nextPool, op, arg, loc, snap>>

\* ----------------------------------------------------------- disconnectAll
\* client.ts:92-94  end() on every registered pool, await Promise.all
DisconnectAllStart(c) ==
  /\ Begin(c, "disconnectAll", 0)
  /\ poolStatus' = [p \in PoolIds |-> IF p \in Registered THEN "ended" ELSE poolStatus[p]]
  /\ pc' = [pc EXCEPT ![c] = "disconnectAll_awaitAll"]
  /\ UNCHANGED <<pools, nextPool, loc, qfail, res>>

\* A plausible slip: without the per-pool .catch a rejected end() rejects
\* Promise.all, and pools.clear() is skipped.
DisconnectAllFinish_NoCatch(c, ok) ==
  /\ pc[c] = "disconnectAll_awaitAll"
  /\ pools' = IF ok THEN EmptyRegistry ELSE pools
  /\ pc' = [pc EXCEPT ![c] = "done"]
  /\ res' = [res EXCEPT ![c] = IF ok THEN "ok" ELSE "threw"]
  /\ qfail' = [qfail EXCEPT ![c] = ~ok]
  /\ UNCHANGED <<poolStatus, nextPool, op, arg, loc, snap>>

\* client.ts:94-96  every end() settled (ok: all resolved; ~ok: some rejected,
\* each swallowed by its .catch), pools.clear()
DisconnectAllFinish(c, ok) ==
  /\ pc[c] = "disconnectAll_awaitAll"
  /\ pools' = EmptyRegistry
  /\ pc' = [pc EXCEPT ![c] = "done"]
  /\ res' = [res EXCEPT ![c] = "ok"]
  /\ qfail' = [qfail EXCEPT ![c] = ~ok]
  /\ UNCHANGED <<poolStatus, nextPool, op, arg, loc, snap>>

\* The caller (an ipcMain.handle wrapper, connection.ts:56-95) takes the outcome.
Return(c) ==
  /\ pc[c] = "done"
  /\ pc' = [pc EXCEPT ![c] = "idle"]
  /\ op' = [op EXCEPT ![c] = "none"]
  /\ arg' = [arg EXCEPT ![c] = 0]
  /\ loc' = [loc EXCEPT ![c] = NoPool]
  /\ snap' = [snap EXCEPT ![c] = EmptyRegistry]
  /\ qfail' = [qfail EXCEPT ![c] = FALSE]
  /\ res' = [res EXCEPT ![c] = "none"]
  /\ UNCHANGED <<pools, poolStatus, nextPool>>

\* A call is made (the code up to its first await runs).
PoolCall(c) ==
  \/ \E id \in ConnIds : ConnectStart(c, id)
  \/ \E id \in ConnIds : DisconnectStart(c, id)
  \/ TestStart(c)
  \/ \E id \in ConnIds : LatencyStart(c, id)
  \/ DisconnectAllStart(c)

\* A suspended call resumes (the code between two awaits runs).
PoolStep(c) ==
  \/ \E ok \in BOOLEAN : ConnectAfterEnd(c, ok)
  \/ ConnectRegister(c)
  \/ ConnectFail(c)
  \/ \E ok \in BOOLEAN : DisconnectFinish(c, ok)
  \/ TestConnected(c)
  \/ TestConnectFail(c)
  \/ \E ok \in BOOLEAN : TestQueryDone(c, ok)
  \/ TestFinish(c)
  \/ \E ok \in BOOLEAN : LatencyDone(c, ok)
  \/ \E ok \in BOOLEAN : DisconnectAllFinish(c, ok)

\* No data handler is involved: the table is empty and no reply is pending.
InitPool ==
  /\ PoolsAtLoad
  /\ tbl = <<>>
  /\ pkCols = <<>>
  /\ colTypes = [c \in {"id", "grp", "txt"} |-> IF c = "txt" THEN "text" ELSE "integer"]
  /\ reply = [name |-> "none", conn |-> 0, outcome |-> "none", sent |-> 0,
              rows |-> <<>>, total |-> 0, matchingRows |-> <<>>, keys |-> <<>>,
              deleted |-> 0, limit |-> 0, offset |-> 0,
              orderBy |-> [column |-> "", dir |-> ""], where |-> <<>>, term |-> <<>>]
  /\ NoTab
  /\ NoHistory
  /\ NoStatusBar

\* Calls arrive over IPC at any time: a new call may start while others are
\* suspended at an await.  A completed call hands its outcome to the caller
\* before any other code runs.
NextPool ==
  /\ \E c \in Calls :
       \/ NoneDone /\ PoolCall(c)
       \/ NoneDone /\ PoolStep(c)
       \/ Return(c)
  /\ UNCHANGED <<rpcVars, browserVars, historyVars, statusVars>>

SpecPool == InitPool /\ [][NextPool]_vars

\* Calls are made one after the other: none starts while another is in progress.
NextPoolSeq ==
  /\ \E c \in Calls :
       \/ AllIdle /\ PoolCall(c)
       \/ PoolStep(c)
       \/ Return(c)
  /\ UNCHANGED <<rpcVars, browserVars, historyVars, statusVars>>

SpecPoolSeq == InitPool /\ [][NextPoolSeq]_vars

\* ====================================================================
\* Part II  Table Data Fetcher
\* ====================================================================
\* The table has two integer columns and one text column.  Text is a sequence
\* of one-character strings.
Cols == <<"id", "grp", "txt">>
ColSet == {"id", "grp", "txt"}
IdVals == 1..2
GrpVals == 1..2
TextVals == {<<"a", "b">>, <<"A", "_">>}
Rows == [id : IdVals, grp : GrpVals, txt : TextVals]

Min(a, b) == IF a < b THEN a ELSE b

Digits == <<"0", "1", "2", "3", "4", "5", "6", "7", "8", "9">>

RECURSIVE NatToText(_)
\* a non-negative integer rendered in decimal (integer::text, bigint count)
NatToText(n) ==
  IF n < 10 THEN <<Digits[n + 1]>>
  ELSE NatToText(n \div 10) \o <<Digits[(n % 10) + 1]>>

DigitValue(ch) == CHOOSE d \in 0..9 : Digits[d + 1] = ch

RECURSIVE ParseIntFrom(_, _)
ParseIntFrom(acc, text) ==
  IF text = <<>> THEN acc
  ELSE ParseIntFrom(acc * 10 + DigitValue(text[1]), Tail(text))

\* schema.ts:185  parseInt(countResult.rows[0].total as string)
ParseInt(text) == ParseIntFrom(0, text)

\* "col"::text
CastText(row, col) == IF col = "txt" THEN row.txt ELSE NatToText(row[col])

\* ---------------------------------------------------------- SQL fragments
NoOrder == [column |-> "", dir |-> ""]
OrderBys ==
  {NoOrder, [column |-> "id", dir |-> "ASC"],
   [column |-> "grp", dir |-> "ASC"], [column |-> "grp", dir |-> "DESC"]}

\* The WHERE fragments a caller may pass: none, a predicate, and one that the
\* backend rejects as malformed.
NoWhere == <<>>
WhereGrp1 == <<"g", "r", "p", "=", "1">>
WhereBad == <<"g", "r", "p", "=">>
WhereClauses == {NoWhere, WhereGrp1, WhereBad}

\* whether the backend can parse WHERE w
WhereValid(w) == w \in {NoWhere, WhereGrp1}

\* whether row satisfies WHERE w (no WHERE at all for the empty fragment)
WhereHolds(w, row) ==
  IF w = NoWhere THEN TRUE
  ELSE IF w = WhereGrp1 THEN row.grp = 1
  ELSE FALSE

Filter(seq, w) == SelectSeq(seq, LAMBDA r : WhereHolds(w, r))

Perms(n) == {f \in [1..n -> 1..n] : \A i, j \in 1..n : f[i] = f[j] => i = j}

\* ORDER BY "column" dir
Sorted(seq, ob) ==
  \A i, j \in 1..Len(seq) :
    i < j => IF ob.dir = "ASC" THEN seq[i][ob.column] <= seq[j][ob.column]
             ELSE seq[i][ob.column] >= seq[j][ob.column]

\* Every order in which the backend may produce the rows of seq: SQL leaves
\* the order of rows that ORDER BY does not distinguish (all rows, without an
\* ORDER BY) unspecified, and each statement is planned on its own.
Orders(seq, ob) ==
  {s \in {[i \in 1..Len(seq) |-> seq[f[i]]] : f \in Perms(Len(seq))} :
     ob = NoOrder \/ Sorted(s, ob)}

\* LIMIT limit OFFSET offset
Window(seq, limit, offset) == SubSeq(seq, offset + 1, Min(offset + limit, Len(seq)))

\* ------------------------------------------------------------------ ILIKE
Lower(ch) == IF ch = "A" THEN "a" ELSE IF ch = "B" THEN "b" ELSE ch

RECURSIVE LikeMatch(_, _)
\* text ILIKE pattern, with the default escape character backslash
LikeMatch(text, pat) ==
  IF pat = <<>> THEN text = <<>>
  ELSE IF pat[1] = "%"
    THEN LikeMatch(text, Tail(pat)) \/ (text # <<>> /\ LikeMatch(Tail(text), pat))
  ELSE IF pat[1] = "_"
    THEN text # <<>> /\ LikeMatch(Tail(text), Tail(pat))
  ELSE IF pat[1] = "\\"
    THEN /\ Len(pat) >= 2
         /\ text # <<>>
         /\ Lower(text[1]) = Lower(pat[2])
         /\ LikeMatch(Tail(text), Tail(Tail(pat)))
  ELSE /\ text # <<>>
       /\ Lower(text[1]) = Lower(pat[1])
       /\ LikeMatch(Tail(text), Tail(pat))

RECURSIVE EscapeLike(_)
\* schema.ts:225  term.replace(/[%_\\]/g, '\\$&')
EscapeLike(term) ==
  IF term = <<>> THEN <<>>
  ELSE (IF term[1] \in {"%", "_", "\\"} THEN <<"\\", term[1]>> ELSE <<term[1]>>)
         \o EscapeLike(Tail(term))

\* schema.ts:225  `%${...}%`
SearchPattern(term) == <<"%">> \o EscapeLike(term) \o <<"%">>

\* schema.ts:219-222  the columns that are searched
skipTypes == {"bytea", "ARRAY", "USER-DEFINED"}

SearchCols == {c \in ColSet : colTypes[c] \notin skipTypes}

\* schema.ts:226  OR of COALESCE("c"::text, '') ILIKE $1
SearchCondition(row, pattern) ==
  \E c \in SearchCols : LikeMatch(CastText(row, c), pattern)

\* ------------------------------------------------------------ IPC replies
NoReply ==
  [name |-> "none", conn |-> 0, outcome |-> "none", sent |-> 0,
   rows |-> <<>>, total |-> 0, matchingRows |-> <<>>, keys |-> <<>>, deleted |-> 0,
   limit |-> 0, offset |-> 0, orderBy |-> NoOrder, where |-> <<>>, term |-> <<>>,
   primaryKeys |-> <<>>, pkValues |-> <<>>, pkValuesList |-> <<>>, updates |-> <<>>]

Called(name, conn) == [NoReply EXCEPT !.name = name, !.conn = conn]

\* `if (!pool) throw new Error('Not connected')`: nothing was sent
NotConnected(name, conn) == [Called(name, conn) EXCEPT !.outcome = "NotConnected"]

\* a statement was rejected by the backend after n statements were sent
Failed(name, conn, n) == [Called(name, conn) EXCEPT !.outcome = "error", !.sent = n]

\* -------------------------------------------------------------- fetchTable
\* A plausible slip: the count statement is built without the WHERE fragment.
CountQuery_IgnoresWhere(t, w) == NatToText(Len(t))

\* schema.ts:176  SELECT COUNT(*) AS total ... ${whereClause}  (a bigint, sent as text)
CountQuery(t, w) == NatToText(Len(Filter(t, w)))

\* schema.ts:172-175  SELECT * ... ${whereClause} ${orderClause} LIMIT $1 OFFSET $2
DataQuery(t, limit, offset, ob, w) ==
  {Window(s, limit, offset) : s \in Orders(Filter(t, w), ob)}

\* schema.ts:143-190  every reply the handler can give on table t
FetchTableReplies(t, conn, limit, offset, ob, w) ==
  IF getPool(conn) = NoPool THEN {NotConnected("fetchTable", conn)}
  ELSE IF ~WhereValid(w) THEN {Failed("fetchTable", conn, 2)}
  ELSE {[Called("fetchTable", conn) EXCEPT
           !.outcome = "ok", !.sent = 2,
           !.rows = data, !.total = ParseInt(CountQuery(t, w)),
           !.limit = limit, !.offset = offset, !.orderBy = ob, !.where = w]
          : data \in DataQuery(t, limit, offset, ob, w)}

\* ------------------------------------------------------------- searchTable
\* schema.ts:231-239  _rn of the rows of the numbered table that match
\* (ROW_NUMBER() OVER (orderClause) - 1, listed ORDER BY _rn)
MatchQuery(t, pattern, ob) ==
  {SelectSeq([i \in 1..Len(s) |-> i - 1],
             LAMBDA rn : SearchCondition(s[rn + 1], pattern))
     : s \in Orders(t, ob)}

\* schema.ts:242  Number(r._rn)
RowNumbers(rns) == [k \in 1..Len(rns) |-> ParseInt(NatToText(rns[k]))]

\* schema.ts:192-246  every reply the handler can give on table t
SearchTableReplies(t, conn, term, ob) ==
  IF getPool(conn) = NoPool THEN {NotConnected("searchTable", conn)}
  ELSE IF SearchCols = {}
    THEN {[Called("searchTable", conn) EXCEPT
             !.outcome = "ok", !.sent = 1, !.term = term, !.orderBy = ob]}
  ELSE {[Called("searchTable", conn) EXCEPT
           !.outcome = "ok", !.sent = 2, !.term = term, !.orderBy = ob,
           !.matchingRows = RowNumbers(rns), !.total = Len(rns)]
          : rns \in MatchQuery(t, SearchPattern(term), ob)}

\* ---------------------------------------------------------- getPrimaryKeys
\* schema.ts:285-292, introspect.ts:183-195
GetPrimaryKeysReply(conn) ==
  IF getPool(conn) = NoPool THEN NotConnected("getPrimaryKeys", conn)
  ELSE [Called("getPrimaryKeys", conn) EXCEPT
          !.outcome = "ok", !.sent = 1, !.keys = pkCols]

\* ------------------------------------------------------------------ writes
KeyOf(row, keys) == [k \in 1..Len(keys) |-> row[keys[k]]]

\* the PRIMARY KEY constraint of the table
KeysUnique(t) ==
  pkCols = <<>> \/
    \A i, j \in 1..Len(t) : KeyOf(t[i], pkCols) = KeyOf(t[j], pkCols) => i = j

\* "pk1" = $1 AND "pk2" = $2 ...
KeyMatches(row, primaryKeys, pkValues) ==
  \A k \in 1..Len(primaryKeys) : row[primaryKeys[k]] = pkValues[primaryKeys[k]]

\* SET "c1" = $1, ...
ApplyUpdates(row, updates) ==
  [c \in ColSet |-> IF c \in DOMAIN updates THEN updates[c] ELSE row[c]]

\* schema.ts:45-67  INSERT ... RETURNING *
InsertRowResult(t, conn, values) ==
  IF getPool(conn) = NoPool
    THEN [table |-> t, reply |-> NotConnected("insertRow", conn)]
  ELSE IF ~KeysUnique(Append(t, values))
    THEN [table |-> t, reply |-> Failed("insertRow", conn, 1)]
  ELSE [table |-> Append(t, values),
        reply |-> [Called("insertRow", conn) EXCEPT
                     !.outcome = "ok", !.sent = 1, !.rows = <<values>>]]

\* A plausible slip: the WHERE tests the first key column only.
UpdateStatement_FirstKeyOnly(t, primaryKeys, pkValues, updates) ==
  [i \in 1..Len(t) |->
     IF primaryKeys = <<>> \/ t[i][primaryKeys[1]] = pkValues[primaryKeys[1]]
       THEN ApplyUpdates(t[i], updates) ELSE t[i]]

\* UPDATE ... SET ... WHERE ... on table t
UpdateStatement(t, primaryKeys, pkValues, updates) ==
  [i \in 1..Len(t) |->
     IF KeyMatches(t[i], primaryKeys, pkValues)
       THEN ApplyUpdates(t[i], updates) ELSE t[i]]

\* schema.ts:248-283  an empty SET list or an empty WHERE is a syntax error
UpdateRowResult(t, conn, primaryKeys, pkValues, updates) ==
  IF getPool(conn) = NoPool
    THEN [table |-> t, reply |-> NotConnected("updateRow", conn)]
  ELSE IF \/ primaryKeys = <<>>
          \/ DOMAIN updates = {}
          \/ ~KeysUnique(UpdateStatement(t, primaryKeys, pkValues, updates))
    THEN [table |-> t, reply |-> Failed("updateRow", conn, 1)]
  ELSE [table |-> UpdateStatement(t, primaryKeys, pkValues, updates),
        reply |-> [Called("updateRow", conn) EXCEPT !.outcome = "ok", !.sent = 1]]

\* A plausible slip: the key equalities are joined with OR.
DeleteStatement_AnyKey(t, primaryKeys, pkValues) ==
  SelectSeq(t, LAMBDA r : \A k \in 1..Len(primaryKeys) :
                            r[primaryKeys[k]] # pkValues[primaryKeys[k]])

\* DELETE FROM ... WHERE "pk1" = $1 AND ...
DeleteStatement(t, primaryKeys, pkValues) ==
  SelectSeq(t, LAMBDA r : ~KeyMatches(r, primaryKeys, pkValues))

RECURSIVE DeleteLoop(_, _, _, _)
\* schema.ts:91-98  the first n statements of the loop, in list order
DeleteLoop(t, primaryKeys, pkValuesList, n) ==
  IF n = 0 THEN t
  ELSE DeleteStatement(DeleteLoop(t, primaryKeys, pkValuesList, n - 1),
                       primaryKeys, pkValuesList[n])

\* schema.ts:69-101  failAt = 0: every DELETE succeeds; failAt = k: the k-th
\* DELETE is rejected (the earlier ones stay applied).  With an empty key list
\* the first DELETE is a syntax error.
DeleteRowsResult(t, conn, primaryKeys, pkValuesList, failAt) ==
  IF getPool(conn) = NoPool
    THEN [table |-> t, reply |-> NotConnected("deleteRows", conn)]
  ELSE IF failAt > 0
    THEN [table |-> DeleteLoop(t, primaryKeys, pkValuesList, failAt - 1),
          reply |-> Failed("deleteRows", conn, failAt)]
  ELSE [table |-> DeleteLoop(t, primaryKeys, pkValuesList, Len(pkValuesList)),
        reply |-> [Called("deleteRows", conn) EXCEPT
                     !.outcome = "ok", !.sent = Len(pkValuesList),
                     !.deleted = Len(pkValuesList)]]

\* the failure points the backend can produce for a deleteRows call
DeleteFailPoints(primaryKeys, pkValuesList) ==
  IF pkValuesList = <<>> THEN {0}
  ELSE IF primaryKeys = <<>> THEN {1}
  ELSE 0..Len(pkValuesList)

\* ------------------------------------------------------ handler invocations
Limits == 0..MaxLimit
Offsets == 0..MaxRows
TermChars == {"a", "b", "_", "%", "\\", "1"}
Terms == UNION {[1..n -> TermChars] : n \in 0..MaxTermLen}
KeyLists == {<<>>, <<"id">>, <<"id", "grp">>}
KeyValues == [id : IdVals, grp : GrpVals]
KeyValueLists == UNION {[1..n -> KeyValues] : n \in 0..2}
Updates ==
  {[c \in {} |-> 0]}
    \cup {[c \in {"txt"} |-> v] : v \in TextVals}
    \cup {[c \in {"grp"} |-> v] : v \in GrpVals}
    \cup {[c \in {"id"} |-> v] : v \in IdVals}

AllSearchable == [c \in ColSet |-> IF c = "txt" THEN "text" ELSE "integer"]
TypeChoices ==
  {AllSearchable,
   [AllSearchable EXCEPT !["txt"] = "bytea"],
   [c \in ColSet |-> IF c = "txt" THEN "bytea" ELSE "USER-DEFINED"]}

\* ipcMain.handle('query:fetchTable', ...)
FetchTable(conn, limit, offset, ob, w) ==
  /\ reply = NoReply
  /\ reply' \in FetchTableReplies(tbl, conn, limit, offset, ob, w)
  /\ UNCHANGED <<tbl, pkCols, colTypes>>

\* ipcMain.handle('query:searchTable', ...)
SearchTable(conn, term, ob) ==
  /\ reply = NoReply
  /\ reply' \in SearchTableReplies(tbl, conn, term, ob)
  /\ UNCHANGED <<tbl, pkCols, colTypes>>

\* ipcMain.handle('query:getPrimaryKeys', ...)
GetPrimaryKeys(conn) ==
  /\ reply = NoReply
  /\ reply' = GetPrimaryKeysReply(conn)
  /\ UNCHANGED <<tbl, pkCols, colTypes>>

\* ipcMain.handle('query:insertRow', ...)
InsertRow(conn, values) ==
  /\ reply = NoReply
  /\ Len(tbl) < MaxRows
  /\ tbl' = InsertRowResult(tbl, conn, values).table
  /\ reply' = InsertRowResult(tbl, conn, values).reply
  /\ UNCHANGED <<pkCols, colTypes>>

\* ipcMain.handle('query:updateRow', ...)
UpdateRow(conn, primaryKeys, pkValues, updates) ==
  /\ reply = NoReply
  /\ tbl' = UpdateRowResult(tbl, conn, primaryKeys, pkValues, updates).table
  /\ reply' = [UpdateRowResult(tbl, conn, primaryKeys, pkValues, updates).reply
                 EXCEPT !.primaryKeys = primaryKeys, !.pkValues = pkValues,
                        !.updates = updates]
  /\ UNCHANGED <<pkCols, colTypes>>

\* ipcMain.handle('query:deleteRows', ...)
DeleteRows(conn, primaryKeys, pkValuesList, failAt) ==
  /\ reply = NoReply
  /\ tbl' = DeleteRowsResult(tbl, conn, primaryKeys, pkValuesList, failAt).table
  /\ reply' = [DeleteRowsResult(tbl, conn, primaryKeys, pkValuesList, failAt).reply
                 EXCEPT !.primaryKeys = primaryKeys, !.pkValuesList = pkValuesList]
  /\ UNCHANGED <<pkCols, colTypes>>

\* the renderer receives the settled ipcRenderer.invoke promise
ReplyTaken ==
  /\ reply # NoReply
  /\ reply' = NoReply
  /\ UNCHANGED <<tbl, pkCols, colTypes>>

\* Connection 1 is connected, every other id is not; the table is empty.
InitRpc ==
  /\ pools = [i \in ConnIds |-> IF i = 1 THEN 1 ELSE NoPool]
  /\ poolStatus = [p \in PoolIds |-> IF p = 1 THEN "live" ELSE "none"]
  /\ nextPool = 1
  /\ pc = [c \in Calls |-> "idle"]
  /\ op = [c \in Calls |-> "none"]
  /\ arg = [c \in Calls |-> 0]
  /\ loc = [c \in Calls |-> NoPool]
  /\ snap = [c \in Calls |-> EmptyRegistry]
  /\ qfail = [c \in Calls |-> FALSE]
  /\ res = [c \in Calls |-> "none"]
  /\ tbl = <<>>
  /\ pkCols \in KeyLists
  /\ colTypes \in TypeChoices
  /\ reply = NoReply
  /\ NoTab
  /\ NoHistory
  /\ NoStatusBar

NextRpc ==
  /\ \/ \E conn \in ConnIds, limit \in Limits, offset \in Offsets,
          ob \in OrderBys, w \in WhereClauses :
            FetchTable(conn, limit, offset, ob, w)
     \/ \E conn \in ConnIds, term \in Terms, ob \in OrderBys :
            SearchTable(conn, term, ob)
     \/ \E conn \in ConnIds : GetPrimaryKeys(conn)
     \/ \E conn \in ConnIds, values \in Rows : InsertRow(conn, values)
     \/ \E conn \in ConnIds, primaryKeys \in KeyLists, pkValues \in KeyValues,
          updates \in Updates :
            UpdateRow(conn, primaryKeys, pkValues, updates)
     \/ \E conn \in ConnIds, primaryKeys \in KeyLists,
          pkValuesList \in KeyValueLists :
            \E failAt \in DeleteFailPoints(primaryKeys, pkValuesList) :
              DeleteRows(conn, primaryKeys, pkValuesList, failAt)
     \/ ReplyTaken
  /\ UNCHANGED <<poolVars, browserVars, historyVars, statusVars>>

SpecRpc == InitRpc /\ [][NextRpc]_vars

\* ====================================================================
\* Part III  Table Browser Controller
\* ====================================================================
\* One table tab is open on connection TabConn.  The refs pageRef, sortRef,
\* matchRowsRef and matchIdxRef (TableBrowser.tsx:61-68) are assigned on every
\* render and in step with their setters, so each is read as the state value
\* it mirrors.  A handler that is suspended at an await keeps the values its
\* closure captured when it was called.

\* meta.connectionId
TabConn == 1

\* The table when the tab opens.  Its schema: id integer NOT NULL,
\* grp integer DEFAULT 1, txt text DEFAULT ''.
BrowserTable ==
  <<[id |-> 1, grp |-> 1, txt |-> <<"a", "b">>],
    [id |-> 2, grp |-> 1, txt |-> <<"A", "_">>],
    [id |-> 3, grp |-> 2, txt |-> <<"a", "b">>]>>

\* what the user types into a grid cell, a draft-row field or the filter bar
CellEdits ==
  {[col |-> "id", val |-> <<"1">>], [col |-> "id", val |-> <<"z">>],
   [col |-> "txt", val |-> <<"z">>]}
DraftEdits == {[col |-> "id", val |-> <<"4">>], [col |-> "txt", val |-> <<"z">>]}
TypedTexts == {WhereGrp1, WhereBad, <<"b">>}
SortCols == {"grp", "id"}

\* utils.ts:18-23  String(value) of a number, the string itself otherwise
cellValueToString(row, col) ==
  IF col = "txt" THEN row.txt ELSE NatToText(row[col])

IsNumeral(text) ==
  text # <<>> /\ \A i \in 1..Len(text) : \E d \in 1..10 : Digits[d] = text[i]

\* The renderer sends every staged value as text; the backend converts the
\* parameter to the column's type and rejects text that is no integer.
Bindable(values) == \A c \in DOMAIN values : c = "txt" \/ IsNumeral(values[c])

BindValues(values) ==
  [c \in DOMAIN values |-> IF c = "txt" THEN values[c] ELSE ParseInt(values[c])]

\* Object.fromEntries(pks.map((pk) => [pk, row[pk]]))
PkValuesOf(row, pks) == [c \in {pks[k] : k \in 1..Len(pks)} |-> row[c]]

\* query:updateRow as the browser calls it
updateRow(t, primaryKeys, pkValues, updates) ==
  IF ~Bindable(updates) THEN [table |-> t, reply |-> Failed("updateRow", TabConn, 1)]
  ELSE UpdateRowResult(t, TabConn, primaryKeys, pkValues, BindValues(updates))

\* the row an INSERT of the draft's columns produces
DraftRow(draft) ==
  [c \in ColSet |->
     IF c \in DOMAIN draft THEN BindValues(draft)[c]
     ELSE IF c = "grp" THEN 1 ELSE <<>>]

\* query:insertRow as the browser calls it
insertRow(t, draft) ==
  IF ~Bindable(draft) \/ "id" \notin DOMAIN draft
    THEN [table |-> t, reply |-> Failed("insertRow", TabConn, 1)]
  ELSE InsertRowResult(t, TabConn, DraftRow(draft))

RECURSIVE DropSpaces(_)
DropSpaces(text) ==
  IF text # <<>> /\ text[1] = " " THEN DropSpaces(Tail(text)) ELSE text

RECURSIVE DropTrailingSpaces(_)
DropTrailingSpaces(text) ==
  IF text # <<>> /\ text[Len(text)] = " "
    THEN DropTrailingSpaces(SubSeq(text, 1, Len(text) - 1)) ELSE text

\* String.prototype.trim
Trim(text) == DropTrailingSpaces(DropSpaces(text))

LowerLetter(ch) ==
  IF ch = "W" THEN "w" ELSE IF ch = "H" THEN "h" ELSE IF ch = "E" THEN "e"
  ELSE IF ch = "R" THEN "r" ELSE ch

\* TableBrowser.tsx:219  filterInput.replace(/^\s*where\s+/i, '')
StripWhere(text) ==
  LET rest == DropSpaces(text)
  IN IF /\ Len(rest) >= 6
        /\ [i \in 1..5 |-> LowerLetter(rest[i])] = <<"w", "h", "e", "r", "e">>
        /\ rest[6] = " "
       THEN DropSpaces(SubSeq(rest, 6, Len(rest)))
     ELSE text

\* the message of a rejected statement
SqlError == <<"e", "r", "r">>

\* schema.ts:166  'Not connected'
NotConnectedError == <<"n", "c">>

\* (err as Error).message of a rejected call
ErrorMessage(r) == IF r.outcome = "NotConnected" THEN NotConnectedError ELSE SqlError

\* ------------------------------------------------------------- async flows
NoTask ==
  [kind |-> "none", pc |-> "none", pageNum |-> 0, sort |-> NoOrder,
   filter |-> <<>>, term |-> <<>>, data |-> <<>>, edits |-> <<>>,
   newRow |-> <<>>, selected |-> <<>>, page |-> 0, keys |-> <<>>, idx |-> 0,
   errors |-> <<>>, attempted |-> <<>>, closeDialog |-> FALSE, by |-> "none",
   globalRowIdx |-> -1, overlapped |-> FALSE]

\* a fetchPage call suspended at `await window.api.query.fetchTable`
FetchTask(pageNum, sort, filter) ==
  [NoTask EXCEPT !.kind = "fetchPage", !.pc = "fetchTable",
                 !.pageNum = pageNum, !.sort = sort, !.filter = filter]

RemoveAt(seq, i) == SubSeq(seq, 1, i - 1) \o SubSeq(seq, i + 1, Len(seq))

\* A plausible slip: a new fetch abandons the fetches still in flight.
fetchPage_CancelsPending(u, ts, pageNum, sort, filter) ==
  [ui |-> [u EXCEPT !.loading = TRUE, !.filterError = <<>>],
   tasks |-> Append(SelectSeq(ts, LAMBDA t : t.kind # "fetchPage"),
                    FetchTask(pageNum, sort, filter))]

\* TableBrowser.tsx:70-83  fetchPage up to its await
fetchPage(u, ts, pageNum, sort, filter) ==
  [ui |-> [u EXCEPT !.loading = TRUE, !.filterError = <<>>],
   tasks |-> Append(ts, FetchTask(pageNum, sort, filter))]

\* the same call made by the flow at position i as its last act
fetchPageAt(u, ts, i, pageNum, sort, filter) ==
  [ui |-> [u EXCEPT !.loading = TRUE, !.filterError = <<>>],
   tasks |-> [ts EXCEPT ![i] = FetchTask(pageNum, sort, filter)]]

\* the grid renders its header and rows
GridShown ==
  tableData.loaded /\ (tableData.rows # <<>> \/ ui.pendingNewRow)

\* TableBrowser.tsx:345
hasPendingChanges == ui.pendingNewRow \/ ui.pendingEdits # <<>>

\* TableBrowser.tsx:451  Math.ceil(tableData.total / PAGE_SIZE)
totalPages ==
  IF tableData.loaded THEN (tableData.total + PAGE_SIZE - 1) \div PAGE_SIZE ELSE 0

\* A user gesture: the handler runs to its first await and the component
\* renders; no gesture touches the backend or the displayed page.
GestureToast(u, ts, raised) ==
  /\ gestures < MaxGestures
  /\ gestures' = gestures + 1
  /\ ui' = u
  /\ tasks' = ts
  /\ toast' = raised
  /\ UNCHANGED <<tbl, tableData>>

\* a gesture whose handler raises no toast before its first await
Gesture(u, ts) == GestureToast(u, ts, NoToast)

\* ------------------------------------------------------------ grid gestures
\* next.set(String(rowIdx), { ...existing, [colId]: newVal }) on a Map
\* (`row` is history, not program state: the id of the displayed row into
\* which the first edit of the entry was typed)
StageEdit(edits, rowIdx, col, newVal) ==
  LET key == NatToText(rowIdx)
  IN IF \E i \in 1..Len(edits) : edits[i].key = key
       THEN [i \in 1..Len(edits) |->
               IF edits[i].key = key
                 THEN [edits[i] EXCEPT !.updates = (col :> newVal) @@ @]
               ELSE edits[i]]
     ELSE Append(edits, [key |-> key, updates |-> (col :> newVal),
                         row |-> tableData.rows[rowIdx + 1].id])

\* A plausible slip: committing a cell also starts the save of the buffer.
CellEditCommit_AutoSave(rowIdx, col, newVal) ==
  /\ GridShown
  /\ rowIdx < Len(tableData.rows)
  /\ Len(tasks) < MaxTasks
  /\ Gesture([ui EXCEPT !.pendingEdits = StageEdit(@, rowIdx, col, newVal),
                        !.saving = TRUE],
             Append(tasks,
                    [NoTask EXCEPT !.kind = "handleSaveAll", !.pc = "getPrimaryKeys",
                                   !.data = tableData.rows,
                                   !.edits = StageEdit(ui.pendingEdits, rowIdx, col, newVal),
                                   !.page = ui.page, !.filter = ui.activeFilter]))

\* ResultsGrid.tsx:426-437  cell onBlur; the buffer is the one TableBrowser
\* owns (TableBrowser.tsx:57, handed to the grid at TableBrowser.tsx:663-664)
CellEditCommit(rowIdx, col, newVal) ==
  /\ GridShown
  /\ rowIdx < Len(tableData.rows)
  /\ Gesture(IF newVal # cellValueToString(tableData.rows[rowIdx + 1], col)
               THEN [ui EXCEPT !.pendingEdits = StageEdit(@, rowIdx, col, newVal)]
             ELSE ui,
             tasks)

IsSelected(idx) == \E k \in 1..Len(ui.selectedRows) : ui.selectedRows[k] = idx

\* A plausible slip: selecting a row also asks for the page again.
handleRowSelect_Refetches(idx, selected) ==
  LET call == fetchPage([ui EXCEPT !.selectedRows =
                           IF selected
                             THEN IF IsSelected(idx) THEN @ ELSE Append(@, idx)
                           ELSE SelectSeq(@, LAMBDA r : r # idx)],
                        tasks, ui.page, ui.sortState, ui.activeFilter)
  IN /\ GridShown
     /\ idx < Len(tableData.rows)
     /\ Len(tasks) < MaxTasks
     /\ Gesture(call.ui, call.tasks)

\* TableBrowser.tsx:283-290
handleRowSelect(idx, selected) ==
  /\ GridShown
  /\ idx < Len(tableData.rows)
  /\ Gesture([ui EXCEPT !.selectedRows =
                IF selected
                  THEN IF IsSelected(idx) THEN @ ELSE Append(@, idx)
                ELSE SelectSeq(@, LAMBDA r : r # idx)],
             tasks)

\* A plausible slip: the header checkbox selects a full page of indices.
handleSelectAll_FullPage(checked) ==
  /\ GridShown
  /\ Gesture([ui EXCEPT !.selectedRows =
                IF checked THEN [k \in 1..PAGE_SIZE |-> k - 1] ELSE <<>>],
             tasks)

\* TableBrowser.tsx:292-300
handleSelectAll(checked) ==
  /\ GridShown
  /\ Gesture([ui EXCEPT !.selectedRows =
                IF checked THEN [k \in 1..Len(tableData.rows) |-> k - 1] ELSE <<>>],
             tasks)

\* A plausible slip: a descending column goes back to ascending.
toggleSort_NeverUnsorted(sortState, col) ==
  IF sortState.column = col /\ sortState.dir = "ASC"
    THEN [column |-> col, dir |-> "DESC"]
  ELSE [column |-> col, dir |-> "ASC"]

\* TableBrowser.tsx:118-123  the sort state after a click on col's header
toggleSort(sortState, col) ==
  IF sortState.column = col
    THEN IF sortState.dir = "ASC" THEN [column |-> col, dir |-> "DESC"] ELSE NoOrder
  ELSE [column |-> col, dir |-> "ASC"]

\* TableBrowser.tsx:117-127
handleSort(col) ==
  LET next == toggleSort(ui.sortState, col)
      call == fetchPage([ui EXCEPT !.sortState = next], tasks, 0, next, ui.activeFilter)
  IN /\ GridShown
     /\ Len(tasks) < MaxTasks
     /\ Gesture(call.ui, call.tasks)

\* A plausible slip: the page is fetched without the active filter.
PageChange_DropsFilter(delta) ==
  LET call == fetchPage(ui, tasks, ui.page + delta, ui.sortState, <<>>)
  IN /\ totalPages > 1
     /\ ~ui.loading
     /\ IF delta < 0 THEN ui.page # 0 ELSE ui.page < totalPages - 1
     /\ Len(tasks) < MaxTasks
     /\ Gesture(call.ui, call.tasks)

\* TableBrowser.tsx:677-689  the previous / next page buttons
PageChange(delta) ==
  LET call == fetchPage(ui, tasks, ui.page + delta, ui.sortState, ui.activeFilter)
  IN /\ totalPages > 1
     /\ ~ui.loading
     /\ IF delta < 0 THEN ui.page # 0 ELSE ui.page < totalPages - 1
     /\ Len(tasks) < MaxTasks
     /\ Gesture(call.ui, call.tasks)

\* ------------------------------------------------------ filter bar gestures
\* TableBrowser.tsx:139-148  whether a page has to be fetched to show the row
NeedsFetch(u, globalRowIdx) == globalRowIdx \div PAGE_SIZE # u.page

\* TableBrowser.tsx:131-137  doScrollToRow has asked for an animation frame
ScrollTask(globalRowIdx) ==
  [NoTask EXCEPT !.kind = "doScrollToRow", !.pc = "requestAnimationFrame",
                 !.globalRowIdx = globalRowIdx]

\* TableBrowser.tsx:139-148  up to the await of fetchPage, or to the
\* animation frame doScrollToRow asks for when no page has to be fetched
navigateToGlobalRow(u, ts, globalRowIdx, filter) ==
  LET call == fetchPage(u, ts, globalRowIdx \div PAGE_SIZE, u.sortState, filter)
  IN IF NeedsFetch(u, globalRowIdx)
       THEN [call EXCEPT !.tasks[Len(call.tasks)].globalRowIdx = globalRowIdx]
     ELSE [ui |-> u, tasks |-> Append(ts, ScrollTask(globalRowIdx))]

\* the same call made by the flow at position i as its last act
navigateToGlobalRowAt(u, ts, i, globalRowIdx, filter) ==
  LET call == fetchPageAt(u, ts, i, globalRowIdx \div PAGE_SIZE, u.sortState, filter)
  IN IF NeedsFetch(u, globalRowIdx)
       THEN [call EXCEPT !.tasks[i].globalRowIdx = globalRowIdx]
     ELSE [ui |-> u, tasks |-> [ts EXCEPT ![i] = ScrollTask(globalRowIdx)]]

\* TableBrowser.tsx:150-166  runSearch up to its await
runSearch(u, ts, term) ==
  IF Trim(term) = <<>>
    THEN [ui |-> [u EXCEPT !.matchRows = <<>>, !.matchIdx = -1, !.searchDone = FALSE],
          tasks |-> ts]
  ELSE [ui |-> [u EXCEPT !.searchDone = TRUE],
        tasks |-> Append(ts, [NoTask EXCEPT !.kind = "runSearch", !.pc = "searchTable",
                                            !.term = Trim(term), !.sort = u.sortState,
                                            !.filter = u.activeFilter])]

\* the Number remainder a % n for n > 0: it has the sign of a
JsRem(a, n) == IF a >= 0 THEN a % n ELSE 0 - ((0 - a) % n)

\* TableBrowser.tsx:195  (matchIdxRef.current + 1) % rows.length
searchNextIdx(idx, n) == JsRem(idx + 1, n)

\* A plausible slip: the previous index is not wrapped.
searchPrevIdx_NoWrap(idx, n) == idx - 1

\* TableBrowser.tsx:204  (matchIdxRef.current - 1 + rows.length) % rows.length
searchPrevIdx(idx, n) == JsRem(idx - 1 + n, n)

\* TableBrowser.tsx:192-208  searchNext (step 1) and searchPrev (step -1)
searchStep(u, ts, step) ==
  IF u.matchRows = <<>> THEN [ui |-> u, tasks |-> ts]
  ELSE LET n == Len(u.matchRows)
           to == IF step = 1 THEN searchNextIdx(u.matchIdx, n)
                 ELSE searchPrevIdx(u.matchIdx, n)
       IN navigateToGlobalRow([u EXCEPT !.matchIdx = to], ts,
                              u.matchRows[to + 1], u.activeFilter)

\* TableBrowser.tsx:212-223
handleApplyFilter(u, ts) ==
  IF u.filterMode = "search"
    THEN runSearch([u EXCEPT !.searchTerm = u.filterInput], ts, u.filterInput)
  ELSE LET call == fetchPage([u EXCEPT !.activeFilter = StripWhere(u.filterInput),
                                       !.filterInput = StripWhere(u.filterInput)],
                             ts, 0, u.sortState, StripWhere(u.filterInput))
       IN [call EXCEPT !.tasks[Len(call.tasks)].by = "handleApplyFilter"]

\* A plausible slip: typing empties the match list and leaves the pointer.
FilterChange_KeepsPointer(text) ==
  Gesture(IF ui.filterMode = "search"
            THEN [ui EXCEPT !.filterInput = text, !.searchTerm = text,
                            !.searchDone = FALSE, !.matchRows = <<>>]
          ELSE [ui EXCEPT !.filterInput = text],
          tasks)

\* TableBrowser.tsx:568-577  the filter input's onChange
FilterChange(text) ==
  Gesture(IF ui.filterMode = "search"
            THEN [ui EXCEPT !.filterInput = text, !.searchTerm = text,
                            !.searchDone = FALSE, !.matchRows = <<>>, !.matchIdx = -1]
          ELSE [ui EXCEPT !.filterInput = text],
          tasks)

\* TableBrowser.tsx:578-595  Enter in the filter input
FilterEnter(shiftKey) ==
  LET call == IF /\ ui.filterMode = "search"
                 /\ ui.matchRows # <<>>
                 /\ ui.searchTerm = ui.filterInput
                THEN searchStep(ui, tasks, IF shiftKey THEN -1 ELSE 1)
              ELSE handleApplyFilter(ui, tasks)
  IN /\ Len(tasks) < MaxTasks
     /\ Gesture(call.ui, call.tasks)

\* TableBrowser.tsx:225-237  Escape in the filter input, or its clear button
handleClearFilter ==
  LET call == IF ui.filterMode = "search"
                THEN [ui |-> [ui EXCEPT !.filterInput = <<>>, !.searchTerm = <<>>,
                                        !.matchRows = <<>>, !.matchIdx = -1,
                                        !.searchDone = FALSE],
                      tasks |-> tasks]
              ELSE fetchPage([ui EXCEPT !.filterInput = <<>>, !.activeFilter = <<>>],
                             tasks, 0, ui.sortState, <<>>)
  IN /\ Len(tasks) < MaxTasks
     /\ Gesture(call.ui, call.tasks)

\* TableBrowser.tsx:251-267
handleSwitchMode(mode) ==
  LET cleared == [ui EXCEPT !.filterInput = <<>>, !.filterMode = mode]
      fetched == IF ui.filterMode = "query" /\ ui.activeFilter # <<>>
                   THEN fetchPage([cleared EXCEPT !.activeFilter = <<>>], tasks,
                                  0, ui.sortState, <<>>)
                 ELSE [ui |-> [cleared EXCEPT !.filterError = <<>>], tasks |-> tasks]
      call == IF mode = ui.filterMode THEN [ui |-> ui, tasks |-> tasks]
              ELSE IF ui.filterMode = "search"
                THEN [ui |-> [fetched.ui EXCEPT !.searchTerm = <<>>, !.matchRows = <<>>,
                                                !.matchIdx = -1, !.searchDone = FALSE],
                      tasks |-> fetched.tasks]
              ELSE fetched
  IN /\ Len(tasks) < MaxTasks
     /\ Gesture(call.ui, call.tasks)

\* ------------------------------------------------------------ batch saving
\* An item of a batch: the draft row, or the buffer entry of a page row
\* (TableBrowser.tsx:369 `Insert: ...`, 395 `Row ${rowIdx + 1}: ...`).
InsertItem == [item |-> "Insert", row |-> 0]
RowItem(rowIdx) == [item |-> "Row", row |-> rowIdx + 1]

\* TableBrowser.tsx:377
NoPkItem == [item |-> "Cannot update rows without a primary key.", row |-> 0]

\* TableBrowser.tsx:366, 393  the counters, from the calls made and the
\* errors recorded
Succeeded(t) ==
  SelectSeq(t.attempted, LAMBDA a : \A k \in 1..Len(t.errors) : t.errors[k] # a)
insertedCount(t) == Len(SelectSeq(Succeeded(t), LAMBDA a : a.item = "Insert"))
updatedCount(t) == Len(SelectSeq(Succeeded(t), LAMBDA a : a.item = "Row"))

\* A plausible slip: the buffers are cleared whether or not a write failed.
saveFinish_AlwaysClears(u, ts, i) ==
  LET t == ts[i]
      cleared == [u EXCEPT !.pendingNewRow = FALSE, !.newRowValues = <<>>,
                           !.pendingEdits = <<>>]
      call == fetchPageAt(cleared, ts, i, t.page, u.sortState, t.filter)
  IN [ui |-> [call.ui EXCEPT !.saving = FALSE,
                             !.showRefreshDialog = IF t.closeDialog THEN FALSE ELSE @],
      tasks |-> call.tasks,
      toast |-> IF t.errors = <<>>
                  THEN Toast("Saved", <<insertedCount(t), updatedCount(t)>>, <<>>)
                ELSE Toast("Some changes failed", <<>>, t.errors)]

\* TableBrowser.tsx:404-421  the end of handleSaveAll, run by the flow at i:
\* the buffers are cleared only without errors, the page captured by the
\* closure is fetched again either way
saveFinish(u, ts, i) ==
  LET t == ts[i]
      cleared == IF t.errors = <<>>
                   THEN [u EXCEPT !.pendingNewRow = FALSE, !.newRowValues = <<>>,
                                  !.pendingEdits = <<>>]
                 ELSE u
      call == fetchPageAt(cleared, ts, i, t.page, u.sortState, t.filter)
  IN [ui |-> [call.ui EXCEPT !.saving = FALSE,
                             !.showRefreshDialog = IF t.closeDialog THEN FALSE ELSE @],
      tasks |-> call.tasks,
      toast |-> IF t.errors = <<>>
                  THEN Toast("Saved", <<insertedCount(t), updatedCount(t)>>, <<>>)
                ELSE Toast("Some changes failed", <<>>, t.errors)]

\* TableBrowser.tsx:380-382  parseInt(rowIdxStr, 10) names a row of the page
RowExists(t, k) == ParseInt(t.edits[k].key) < Len(t.data)

\* TableBrowser.tsx:379-397  the loop, from entry `from` of the captured
\* buffer to the next await of updateRow
saveUpdates(u, ts, i, from) ==
  LET todo == {k \in from..Len(ts[i].edits) : RowExists(ts[i], k)}
      next == CHOOSE k \in todo : \A m \in todo : k <= m
  IN IF todo = {} THEN saveFinish(u, ts, i)
     ELSE [ui |-> u,
           tasks |-> [ts EXCEPT ![i].pc = "updateRow", ![i].idx = next,
                                ![i].attempted =
                                  Append(@, RowItem(ParseInt(ts[i].edits[next].key)))],
           toast |-> NoToast]

\* TableBrowser.tsx:374-375
saveEdits(u, ts, i) ==
  IF ts[i].edits # <<>>
    THEN [ui |-> u, tasks |-> [ts EXCEPT ![i].pc = "getPrimaryKeys"],
          toast |-> NoToast]
  ELSE saveFinish(u, ts, i)

\* TableBrowser.tsx:347-365  handleSaveAll up to its first await
saveAll(u, ts, closeDialog) ==
  LET t == [NoTask EXCEPT !.kind = "handleSaveAll", !.pc = "insertRow",
                          !.data = tableData.rows, !.edits = u.pendingEdits,
                          !.newRow = u.newRowValues, !.page = u.page,
                          !.filter = u.activeFilter, !.closeDialog = closeDialog]
      started == [u EXCEPT !.saving = TRUE]
  IN IF ~tableData.loaded
       THEN [ui |-> [u EXCEPT !.showRefreshDialog = IF closeDialog THEN FALSE ELSE @],
             tasks |-> ts, toast |-> NoToast]
     ELSE IF u.pendingNewRow /\ DOMAIN u.newRowValues # {}
       THEN [ui |-> started,
             tasks |-> Append(ts, [t EXCEPT !.attempted = <<InsertItem>>]),
             toast |-> NoToast]
     ELSE saveEdits(started, Append(ts, t), Len(ts) + 1)

\* TableBrowser.tsx:461-471  the Save button
handleSaveAll ==
  /\ hasPendingChanges
  /\ ~ui.saving
  /\ Len(tasks) < MaxTasks
  /\ GestureToast(saveAll(ui, tasks, FALSE).ui, saveAll(ui, tasks, FALSE).tasks,
                  saveAll(ui, tasks, FALSE).toast)

\* TableBrowser.tsx:424-428  the Discard button
handleDiscardAll ==
  /\ hasPendingChanges
  /\ ~ui.saving
  /\ Gesture([ui EXCEPT !.pendingNewRow = FALSE, !.newRowValues = <<>>,
                        !.pendingEdits = <<>>],
             tasks)

\* A plausible slip: the page is fetched whether or not changes are pending.
handleRefresh_FetchesAnyway ==
  LET call == fetchPage([ui EXCEPT !.showRefreshDialog = hasPendingChanges], tasks,
                        ui.page, ui.sortState, ui.activeFilter)
  IN /\ ~ui.loading
     /\ Len(tasks) < MaxTasks
     /\ Gesture(call.ui, call.tasks)

\* TableBrowser.tsx:430-436  the Refresh button
handleRefresh ==
  LET call == IF hasPendingChanges
                THEN [ui |-> [ui EXCEPT !.showRefreshDialog = TRUE], tasks |-> tasks]
              ELSE fetchPage(ui, tasks, ui.page, ui.sortState, ui.activeFilter)
  IN /\ ~ui.loading
     /\ Len(tasks) < MaxTasks
     /\ Gesture(call.ui, call.tasks)

\* TableBrowser.tsx:438-442
handleRefreshDiscard ==
  LET call == fetchPage([ui EXCEPT !.pendingNewRow = FALSE, !.newRowValues = <<>>,
                                   !.pendingEdits = <<>>, !.showRefreshDialog = FALSE],
                        tasks, ui.page, ui.sortState, ui.activeFilter)
  IN /\ ui.showRefreshDialog
     /\ Len(tasks) < MaxTasks
     /\ Gesture(call.ui, call.tasks)

\* TableBrowser.tsx:444-448
handleRefreshSave ==
  /\ ui.showRefreshDialog
  /\ ~ui.saving
  /\ Len(tasks) < MaxTasks
  /\ GestureToast(saveAll(ui, tasks, TRUE).ui, saveAll(ui, tasks, TRUE).tasks,
                  saveAll(ui, tasks, TRUE).toast)

\* TableBrowser.tsx:692, 705  the dialog is dismissed
RefreshCancel ==
  /\ ui.showRefreshDialog
  /\ Gesture([ui EXCEPT !.showRefreshDialog = FALSE], tasks)

\* TableBrowser.tsx:498-507  the Insert row button
InsertRowClick ==
  /\ ~ui.pendingNewRow
  /\ Gesture([ui EXCEPT !.pendingNewRow = TRUE, !.selectedRows = <<>>], tasks)

\* ResultsGrid.tsx:603-608  a field of the draft row changes; the draft is
\* the one TableBrowser owns (TableBrowser.tsx:58, 665-666)
NewRowChange(col, val) ==
  /\ GridShown
  /\ ui.pendingNewRow
  /\ Gesture([ui EXCEPT !.newRowValues = (col :> val) @@ @], tasks)

\* TableBrowser.tsx:660  onCancelNewRow
CancelNewRow ==
  /\ GridShown
  /\ ui.pendingNewRow
  /\ Gesture([ui EXCEPT !.pendingNewRow = FALSE, !.newRowValues = <<>>], tasks)

\* TableBrowser.tsx:368-370, 394-396  a rejected write is recorded under its item
Errors(t, reply_, item) ==
  IF reply_.outcome = "ok" THEN t.errors ELSE Append(t.errors, item)

\* TableBrowser.tsx:360-371  the insertRow reply arrives
SaveInsertDone(i) ==
  LET t == tasks[i]
      r == insertRow(tbl, t.newRow)
      next == saveEdits(ui, [tasks EXCEPT ![i].errors = Errors(t, r.reply, InsertItem)],
                        i)
  IN /\ t.kind = "handleSaveAll" /\ t.pc = "insertRow"
     /\ tbl' = r.table
     /\ ui' = next.ui
     /\ tasks' = next.tasks
     /\ toast' = next.toast
     /\ UNCHANGED <<tableData, gestures>>

\* TableBrowser.tsx:375-378  the getPrimaryKeys reply arrives.  A rejected call
\* is caught nowhere: only the `finally` at 419-421 runs.
SaveKeysDone(i) ==
  LET t == tasks[i]
      r == GetPrimaryKeysReply(TabConn)
      pks == r.keys
      next == IF r.outcome # "ok"
                THEN [ui |-> [ui EXCEPT !.saving = FALSE], tasks |-> RemoveAt(tasks, i),
                      toast |-> NoToast]
              ELSE IF pks = <<>>
                THEN saveFinish(ui, [tasks EXCEPT ![i].errors = Append(@, NoPkItem)], i)
              ELSE saveUpdates(ui, [tasks EXCEPT ![i].keys = pks], i, 1)
  IN /\ t.kind = "handleSaveAll" /\ t.pc = "getPrimaryKeys"
     /\ ui' = next.ui
     /\ tasks' = next.tasks
     /\ toast' = next.toast
     /\ UNCHANGED <<tbl, tableData, gestures>>

\* TableBrowser.tsx:383-396  the updateRow reply for entry idx arrives
SaveUpdateDone(i) ==
  LET t == tasks[i]
      e == t.edits[t.idx]
      r == updateRow(tbl, t.keys, PkValuesOf(t.data[ParseInt(e.key) + 1], t.keys),
                     e.updates)
      next == saveUpdates(ui,
                          [tasks EXCEPT ![i].errors =
                                          Errors(t, r.reply, RowItem(ParseInt(e.key)))],
                          i, t.idx + 1)
  IN /\ t.kind = "handleSaveAll" /\ t.pc = "updateRow"
     /\ tbl' = r.table
     /\ ui' = next.ui
     /\ tasks' = next.tasks
     /\ toast' = next.toast
     /\ UNCHANGED <<tableData, gestures>>

\* ---------------------------------------------------------------- deleting
\* TableBrowser.tsx:302-305  the Delete button
handleDeleteSelected ==
  /\ ui.selectedRows # <<>>
  /\ ~ui.deleting
  /\ Gesture(IF tableData.loaded THEN [ui EXCEPT !.showDeleteDialog = TRUE] ELSE ui,
             tasks)

\* TableBrowser.tsx:307-311  the dialog's Delete button, up to the first await
confirmDelete ==
  /\ ui.showDeleteDialog
  /\ ~ui.deleting
  /\ Len(tasks) < MaxTasks
  /\ Gesture(ui,
             IF ~tableData.loaded \/ ui.selectedRows = <<>> THEN tasks
             ELSE Append(tasks,
                         [NoTask EXCEPT !.kind = "confirmDelete", !.pc = "getPrimaryKeys",
                                        !.data = tableData.rows,
                                        !.selected = ui.selectedRows,
                                        !.page = ui.page, !.filter = ui.activeFilter]))

\* TableBrowser.tsx:720, 732  the dialog is dismissed
DeleteCancel ==
  /\ ui.showDeleteDialog
  /\ Gesture([ui EXCEPT !.showDeleteDialog = FALSE], tasks)

\* A plausible slip: the key list is not tested before the rows are deleted.
DeleteKeysDone_NoKeyCheck(i) ==
  LET t == tasks[i]
      pks == GetPrimaryKeysReply(TabConn).keys
  IN /\ t.kind = "confirmDelete" /\ t.pc = "getPrimaryKeys"
     /\ toast' = NoToast
     /\ ui' = [ui EXCEPT !.deleting = TRUE, !.showDeleteDialog = FALSE]
     /\ tasks' = [tasks EXCEPT ![i].pc = "deleteRows", ![i].keys = pks]
     /\ UNCHANGED <<tbl, tableData, gestures>>

\* TableBrowser.tsx:311-331  the getPrimaryKeys reply arrives.  A rejected
\* call ends confirmDelete where it stands (the await is outside the try).
DeleteKeysDone(i) ==
  LET t == tasks[i]
      r == GetPrimaryKeysReply(TabConn)
      pks == r.keys
  IN /\ t.kind = "confirmDelete" /\ t.pc = "getPrimaryKeys"
     /\ IF r.outcome # "ok"
          THEN /\ toast' = NoToast
               /\ ui' = ui
               /\ tasks' = RemoveAt(tasks, i)
        ELSE IF pks = <<>>
          THEN /\ toast' = Toast("No primary key", <<>>, <<>>)
               /\ ui' = [ui EXCEPT !.showDeleteDialog = FALSE]
               /\ tasks' = RemoveAt(tasks, i)
        ELSE /\ toast' = NoToast
             /\ ui' = [ui EXCEPT !.deleting = TRUE, !.showDeleteDialog = FALSE]
             /\ tasks' = [tasks EXCEPT ![i].pc = "deleteRows", ![i].keys = pks]
     /\ UNCHANGED <<tbl, tableData, gestures>>

\* TableBrowser.tsx:318-320  Array.from(selectedRows).map(...)
pkValuesList(t) ==
  [k \in 1..Len(t.selected) |-> PkValuesOf(t.data[t.selected[k] + 1], t.keys)]

\* TableBrowser.tsx:325-342  the deleteRows reply arrives
DeleteRowsDone(i, failAt) ==
  LET t == tasks[i]
      r == DeleteRowsResult(tbl, TabConn, t.keys, pkValuesList(t), failAt)
      call == fetchPageAt([ui EXCEPT !.selectedRows = <<>>], tasks, i,
                          t.page, ui.sortState, t.filter)
  IN /\ t.kind = "confirmDelete" /\ t.pc = "deleteRows"
     /\ failAt \in DeleteFailPoints(t.keys, pkValuesList(t))
     /\ tbl' = r.table
     /\ IF r.reply.outcome = "ok"
          THEN /\ toast' = Toast("Deleted", <<r.reply.deleted>>, <<>>)
               /\ ui' = [call.ui EXCEPT !.deleting = FALSE]
               /\ tasks' = call.tasks
        ELSE /\ toast' = Toast("Delete failed", <<>>, <<>>)
             /\ ui' = [ui EXCEPT !.deleting = FALSE]
             /\ tasks' = RemoveAt(tasks, i)
     /\ UNCHANGED <<tableData, gestures>>

\* ------------------------------------------------------- fetch and search
\* TableBrowser.tsx:143-147  fetchPage has returned to its caller: when that
\* is navigateToGlobalRow, the flow waits for an animation frame and calls
\* doScrollToRow, which asks for another; the two frames are one step
\* (`overlapped` is history, not program state: it records on the fetches
\* still in flight that the reply of another fetch arrived meanwhile)
fetchPageReturns(ts, i) ==
  LET others == [k \in 1..Len(ts) |->
                  IF k # i /\ ts[k].kind = "fetchPage"
                    THEN [ts[k] EXCEPT !.overlapped = TRUE]
                  ELSE ts[k]]
  IN IF ts[i].globalRowIdx >= 0
       THEN [others EXCEPT ![i] = ScrollTask(ts[i].globalRowIdx)]
     ELSE RemoveAt(others, i)

\* A plausible slip: a failed fetch also drops the page that is displayed.
FetchDone_DropsPageOnError(i) ==
  LET t == tasks[i]
  IN /\ t.kind = "fetchPage"
     /\ \E r \in FetchTableReplies(tbl, TabConn, PAGE_SIZE, t.pageNum * PAGE_SIZE,
                                   t.sort, t.filter) :
          IF r.outcome = "ok"
            THEN /\ tableData' = [loaded |-> TRUE, rows |-> r.rows, total |-> r.total,
                                  filter |-> t.filter]
                 /\ ui' = [ui EXCEPT !.page = t.pageNum, !.selectedRows = <<>>,
                                     !.loading = FALSE]
                 /\ toast' = NoToast
          ELSE /\ tableData' = NoTableData
               /\ ui' = [ui EXCEPT !.filterError = IF t.filter # <<>> THEN ErrorMessage(r)
                                                   ELSE @,
                                   !.page = 0, !.selectedRows = <<>>, !.loading = FALSE]
               /\ toast' = IF t.filter # <<>> THEN NoToast
                           ELSE Toast("Error", <<>>, <<>>)
     /\ tasks' = fetchPageReturns(tasks, i)
     /\ UNCHANGED <<tbl, gestures>>

\* TableBrowser.tsx:84-97  the fetchTable reply arrives
FetchDone(i) ==
  LET t == tasks[i]
  IN /\ t.kind = "fetchPage"
     /\ \E r \in FetchTableReplies(tbl, TabConn, PAGE_SIZE, t.pageNum * PAGE_SIZE,
                                   t.sort, t.filter) :
          IF r.outcome = "ok"
            THEN /\ tableData' = [loaded |-> TRUE, rows |-> r.rows, total |-> r.total,
                                  filter |-> t.filter]
                 /\ ui' = [ui EXCEPT !.page = t.pageNum, !.selectedRows = <<>>,
                                     !.loading = FALSE]
                 /\ toast' = NoToast
          ELSE /\ tableData' = tableData
               /\ ui' = [ui EXCEPT !.filterError = IF t.filter # <<>> THEN ErrorMessage(r)
                                                   ELSE @,
                                   !.loading = FALSE]
               /\ toast' = IF t.filter # <<>> THEN NoToast
                           ELSE Toast("Error", <<>>, <<>>)
     /\ tasks' = fetchPageReturns(tasks, i)
     /\ UNCHANGED <<tbl, gestures>>

\* A plausible slip: the pointer always starts at the first match.
FirstMatchFrom_AlwaysFirst(rows, currentOffset) == 0

\* TableBrowser.tsx:173-174  rows.findIndex((r) => r >= currentOffset), or 0
FirstMatchFrom(rows, currentOffset) ==
  LET at == {k \in 1..Len(rows) : rows[k] >= currentOffset}
  IN IF at = {} THEN 0 ELSE (CHOOSE k \in at : \A m \in at : k <= m) - 1

\* TableBrowser.tsx:167-189  the searchTable reply arrives
SearchDone(i) ==
  LET t == tasks[i]
  IN /\ t.kind = "runSearch"
     /\ \E r \in SearchTableReplies(tbl, TabConn, t.term, t.sort) :
          LET rows == r.matchingRows
              idx == FirstMatchFrom(rows, ui.page * PAGE_SIZE)
              found == [ui EXCEPT !.matchRows = rows, !.matchIdx = idx]
          IN IF r.outcome # "ok"
               THEN /\ ui' = [ui EXCEPT !.matchRows = <<>>, !.matchIdx = -1]
                    /\ tasks' = RemoveAt(tasks, i)
                    /\ toast' = Toast("Search error", <<>>, <<>>)
             ELSE IF rows = <<>>
               THEN /\ ui' = [ui EXCEPT !.matchRows = rows, !.matchIdx = -1]
                    /\ tasks' = RemoveAt(tasks, i)
                    /\ toast' = NoToast
             ELSE /\ ui' = navigateToGlobalRowAt(found, tasks, i, rows[idx + 1],
                                                 t.filter).ui
                  /\ tasks' = navigateToGlobalRowAt(found, tasks, i, rows[idx + 1],
                                                    t.filter).tasks
                  /\ toast' = NoToast
     /\ UNCHANGED <<tbl, tableData, gestures>>

\* TableBrowser.tsx:133-135  the animation frame fires: setScrollToRow(localIdx)
\* and the timer that takes it back is started
ScrollDone(i) ==
  LET t == tasks[i]
  IN /\ t.kind = "doScrollToRow" /\ t.pc = "requestAnimationFrame"
     /\ ui' = [ui EXCEPT !.scrollToRow = JsRem(t.globalRowIdx, PAGE_SIZE)]
     /\ tasks' = [tasks EXCEPT ![i].pc = "setTimeout"]
     /\ toast' = NoToast
     /\ UNCHANGED <<tbl, tableData, gestures>>

\* TableBrowser.tsx:135  the timer fires: setScrollToRow(undefined)
ScrollReset(i) ==
  LET t == tasks[i]
  IN /\ t.kind = "doScrollToRow" /\ t.pc = "setTimeout"
     /\ ui' = [ui EXCEPT !.scrollToRow = -1]
     /\ tasks' = RemoveAt(tasks, i)
     /\ toast' = NoToast
     /\ UNCHANGED <<tbl, tableData, gestures>>

\* ------------------------------------------------------------ specification
\* TableBrowser.tsx:102-104  the tab has just been opened: the mount effect
\* has called fetchPage(0, null, '').  The connection is open.
InitBrowser ==
  /\ pools = [i \in ConnIds |-> IF i = TabConn THEN 1 ELSE NoPool]
  /\ poolStatus = [p \in PoolIds |-> IF p = 1 THEN "live" ELSE "none"]
  /\ nextPool = 1
  /\ pc = [c \in Calls |-> "idle"]
  /\ op = [c \in Calls |-> "none"]
  /\ arg = [c \in Calls |-> 0]
  /\ loc = [c \in Calls |-> NoPool]
  /\ snap = [c \in Calls |-> EmptyRegistry]
  /\ qfail = [c \in Calls |-> FALSE]
  /\ res = [c \in Calls |-> "none"]
  /\ tbl = BrowserTable
  /\ pkCols \in {<<>>, <<"id">>}
  /\ colTypes = AllSearchable
  /\ reply = NoReply
  /\ ui = fetchPage(UiAtMount, <<>>, 0, NoOrder, <<>>).ui
  /\ tasks = fetchPage(UiAtMount, <<>>, 0, NoOrder, <<>>).tasks
  /\ tableData = NoTableData
  /\ gestures = 0
  /\ toast = NoToast
  /\ NoHistory
  /\ NoStatusBar

\* the gestures that stage, select, sort, filter, search and page
BrowseGesture ==
  \/ \E rowIdx \in 0..(PAGE_SIZE - 1), e \in CellEdits :
       CellEditCommit(rowIdx, e.col, e.val)
  \/ \E idx \in 0..(PAGE_SIZE - 1) : handleRowSelect(idx, ~IsSelected(idx))
  \/ \E checked \in BOOLEAN : handleSelectAll(checked)
  \/ \E col \in SortCols : handleSort(col)
  \/ \E delta \in {-1, 1} : PageChange(delta)
  \/ \E text \in TypedTexts : FilterChange(text)
  \/ \E shiftKey \in BOOLEAN : FilterEnter(shiftKey)
  \/ handleClearFilter
  \/ \E mode \in {"query", "search"} : handleSwitchMode(mode)

\* useAppStore.ts:191-193, client.ts:36-42  the user disconnects the tab's
\* connection from the sidebar; the tab stays open
Disconnect ==
  /\ gestures < MaxGestures
  /\ isConnected(TabConn)
  /\ gestures' = gestures + 1
  /\ poolStatus' = EndPool(poolStatus, getPool(TabConn))
  /\ pools' = [pools EXCEPT ![TabConn] = NoPool]
  /\ toast' = NoToast
  /\ UNCHANGED <<nextPool, pc, op, arg, loc, snap, qfail, res, rpcVars,
                 ui, tableData, tasks, historyVars, statusVars>>

\* the gestures that ask for a write to the backend
ExplicitTrigger == handleSaveAll \/ handleRefreshSave \/ confirmDelete

\* an awaited reply arrives and the suspended handler runs on
Resume(i) ==
  \/ FetchDone(i)
  \/ SearchDone(i)
  \/ ScrollDone(i)
  \/ ScrollReset(i)
  \/ SaveInsertDone(i)
  \/ SaveKeysDone(i)
  \/ SaveUpdateDone(i)
  \/ DeleteKeysDone(i)
  \/ \E failAt \in 0..PAGE_SIZE : DeleteRowsDone(i, failAt)

\* a step of the tab itself
TabStep ==
  /\ \/ BrowseGesture
     \/ ExplicitTrigger
     \/ handleDiscardAll
     \/ handleRefresh
     \/ handleRefreshDiscard
     \/ RefreshCancel
     \/ InsertRowClick
     \/ \E e \in DraftEdits : NewRowChange(e.col, e.val)
     \/ CancelNewRow
     \/ handleDeleteSelected
     \/ DeleteCancel
     \/ \E i \in 1..Len(tasks) : Resume(i)
  /\ UNCHANGED <<poolVars, pkCols, colTypes, reply, historyVars, statusVars>>

NextBrowser == TabStep \/ Disconnect

SpecBrowser == InitBrowser /\ [][NextBrowser]_vars

\* ====================================================================
\* Part IV  Query History
\* ====================================================================
\* An entry is the caller's record with a fresh id (history.ts:10); the model
\* keeps its connectionId and names the id by the number of the randomUUID()
\* call that produced it.  An optional argument is a sequence of at most one
\* value: <<>> is `undefined`.
HistoryEntry(id, connectionId) == [id |-> id, connectionId |-> connectionId]

\* Array.prototype.slice(0, n)
Slice(seq, n) == SubSeq(seq, 1, Min(n, Len(seq)))

\* A plausible slip: the list is cut at its head, so the newest entry is lost.
AddToHistory_DropsNewest(history, newEntry) ==
  IF Len(history) >= MAX_HISTORY THEN history ELSE <<newEntry>> \o history

\* history.ts:11  [newEntry, ...history].slice(0, MAX_HISTORY)
AddToHistory(history, newEntry) == Slice(<<newEntry>> \o history, MAX_HISTORY)

\* history.ts:18, 27  Array.prototype.filter on the entry's connection
OfConnection(history, connectionId) ==
  SelectSeq(history, LAMBDA h : h.connectionId = connectionId)
NotOfConnection(history, connectionId) ==
  SelectSeq(history, LAMBDA h : h.connectionId # connectionId)

\* history.ts:8-14  history:add
HistoryAdd(connectionId) ==
  LET newEntry == HistoryEntry(uuids + 1, connectionId)
  IN /\ uuids < MaxAdds
     /\ uuids' = uuids + 1
     /\ queryHistory' = AddToHistory(queryHistory, newEntry)
     /\ historyReply' = [name |-> "add", connectionId |-> <<connectionId>>,
                         value |-> <<newEntry>>]

\* history.ts:16-22  history:list
HistoryList(connectionId) ==
  /\ historyReply' = [name |-> "list", connectionId |-> connectionId,
                      value |-> IF connectionId # <<>>
                                  THEN OfConnection(queryHistory, connectionId[1])
                                ELSE queryHistory]
  /\ UNCHANGED <<queryHistory, uuids>>

\* history.ts:24-33  history:clear
HistoryClear(connectionId) ==
  /\ queryHistory' = IF connectionId # <<>>
                       THEN NotOfConnection(queryHistory, connectionId[1])
                     ELSE <<>>
  /\ historyReply' = [name |-> "clear", connectionId |-> connectionId, value |-> <<>>]
  /\ UNCHANGED uuids

\* CommandPalette.tsx:317, 333  activeConnectionId ?? undefined
OptionalConns == {<<>>} \cup {<<c>> : c \in ConnIds}

\* The store holds its defaults; nothing else of the program is running.
InitHistory ==
  /\ PoolsAtLoad
  /\ tbl = <<>>
  /\ pkCols = <<>>
  /\ colTypes = AllSearchable
  /\ reply = NoReply
  /\ NoTab
  /\ NoHistory
  /\ NoStatusBar

NextHistory ==
  /\ \/ \E connectionId \in ConnIds : HistoryAdd(connectionId)
     \/ \E connectionId \in OptionalConns : HistoryList(connectionId)
     \/ \E connectionId \in OptionalConns : HistoryClear(connectionId)
  /\ UNCHANGED <<poolVars, rpcVars, browserVars, statusVars>>

SpecHistory == InitHistory /\ [][NextHistory]_vars

\* ========================================================================
\* Part V   Status Bar latency probe  (renderer StatusBar/StatusBar.tsx)
\* ========================================================================
\* StatusBar.tsx:79  the dependencies of the latency effect as a render sees
\* them; a null activeConnectionId is 0
Deps(s) ==
  [activeConnectionId |-> s.activeConnectionId,
   isConnected |-> s.activeConnectionId \in s.connectedIds]

\* StatusBar.tsx:23, 60-79  a mounted status bar whose effect last ran with
\* `deps`: the ref holds `latencyInterval` (0 is null) and the effect
\* returned a cleanup function or returned early
StatusBarWith(deps, latencyInterval, cleanup) ==
  [mounted |-> TRUE, deps |-> deps, latencyInterval |-> latencyInterval,
   cleanup |-> cleanup]

\* the dependencies of a component that has rendered but not run its effect
NoDeps == [activeConnectionId |-> -1, isConnected |-> FALSE]

\* useAppStore.ts:99-101  the store's defaults; App.tsx:123 has mounted the
\* status bar, whose effect returned at StatusBar.tsx:63
InitStatus ==
  /\ PoolsAtLoad
  /\ tbl = <<>>
  /\ pkCols = <<>>
  /\ colTypes = AllSearchable
  /\ reply = NoReply
  /\ NoTab
  /\ NoHistory
  /\ store = [activeConnectionId |-> 0, connectedIds |-> {},
              latency |-> [c \in ConnIds |-> FALSE]]
  /\ statusBar = StatusBarWith(Deps(store), 0, FALSE)
  /\ timers = <<>>
  /\ measures = <<>>

\* clearInterval(id): the timer never fires again; an id that names no timer,
\* or a timer already cleared, is ignored
clearInterval(ts, id) ==
  IF id \in 1..Len(ts) THEN [ts EXCEPT ![id].live = FALSE] ELSE ts

\* StatusBar.tsx:76-78  the cleanup the last effect returned, if it returned one
cleanup(ts) ==
  IF statusBar.cleanup /\ statusBar.latencyInterval # 0
    THEN clearInterval(ts, statusBar.latencyInterval)
  ELSE ts

\* StatusBar.tsx:65-66  measure() up to its first await
Measure(connectionId, by) == [conn |-> connectionId, pc |-> "status", by |-> by]

\* React has run the effects of the last render
EffectsFlushed == statusBar.mounted => statusBar.deps = Deps(store)

\* A plausible slip: the effect starts a new interval without clearing the
\* one it started before.
LatencyEffect_KeepsOldTimer ==
  LET deps == Deps(store)
  IN /\ statusBar.mounted
     /\ statusBar.deps # deps
     /\ IF deps.activeConnectionId = 0 \/ ~deps.isConnected
          THEN /\ timers' = timers
               /\ statusBar' = StatusBarWith(deps, statusBar.latencyInterval, FALSE)
               /\ measures' = measures
        ELSE /\ Len(timers) < MaxTimers
             /\ Len(measures) < MaxMeasures
             /\ timers' = Append(timers, [conn |-> deps.activeConnectionId, live |-> TRUE])
             /\ statusBar' = StatusBarWith(deps, Len(timers) + 1, TRUE)
             /\ measures' = Append(measures, Measure(deps.activeConnectionId, 0))
     /\ UNCHANGED <<store, pools, poolStatus, nextPool>>

\* StatusBar.tsx:60-79  a dependency changed: React runs the cleanup of the
\* previous effect and then the effect
LatencyEffect ==
  LET deps == Deps(store)
      cleared == clearInterval(cleanup(timers), statusBar.latencyInterval)
  IN /\ statusBar.mounted
     /\ statusBar.deps # deps
     /\ IF deps.activeConnectionId = 0 \/ ~deps.isConnected
          THEN /\ timers' = cleared
               /\ statusBar' = StatusBarWith(deps, statusBar.latencyInterval, FALSE)
               /\ measures' = measures
        ELSE /\ Len(timers) < MaxTimers
             /\ Len(measures) < MaxMeasures
             /\ timers' = Append(cleared, [conn |-> deps.activeConnectionId, live |-> TRUE])
             /\ statusBar' = StatusBarWith(deps, Len(timers) + 1, TRUE)
             /\ measures' = Append(measures, Measure(deps.activeConnectionId, 0))
     /\ UNCHANGED <<store, pools, poolStatus, nextPool>>

\* the window is torn down: React runs the cleanup of the last effect
Unmount ==
  /\ statusBar.mounted
  /\ timers' = cleanup(timers)
  /\ statusBar' = [statusBar EXCEPT !.mounted = FALSE]
  /\ UNCHANGED <<store, measures, pools, poolStatus, nextPool>>

\* App.tsx:123  the status bar is mounted again with a fresh ref; its effect
\* runs as the next step
Mount ==
  /\ ~statusBar.mounted
  /\ statusBar' = StatusBarWith(NoDeps, 0, FALSE)
  /\ UNCHANGED <<store, timers, measures, pools, poolStatus, nextPool>>

\* StatusBar.tsx:75  the interval elapses and the timer calls measure
TimerFires(t) ==
  /\ timers[t].live
  /\ Len(measures) < MaxMeasures
  /\ measures' = Append(measures, Measure(timers[t].conn, t))
  /\ UNCHANGED <<store, statusBar, timers, pools, poolStatus, nextPool>>

\* StatusBar.tsx:66-71, connection.ts:92-94  a connections:status reply
\* arrives: the first starts the timed round trip when the backend holds a
\* pool, the second stores the latency
MeasureResumes(i) ==
  LET m == measures[i]
  IN /\ IF m.pc = "status" /\ isConnected(m.conn)
          THEN /\ measures' = [measures EXCEPT ![i].pc = "timed"]
               /\ store' = store
        ELSE /\ measures' = RemoveAt(measures, i)
             /\ store' = IF m.pc = "timed"
                           THEN [store EXCEPT !.latency[m.conn] = TRUE]
                         ELSE store
     /\ UNCHANGED <<statusBar, timers, pools, poolStatus, nextPool>>

\* useAppStore.ts:183-187, client.ts:20-34  connectToDb after its await: the
\* backend holds a new pool, the id is connected and active
connectToDb(id) ==
  /\ EffectsFlushed
  /\ ~isConnected(id)
  /\ nextPool < MaxPools
  /\ nextPool' = nextPool + 1
  /\ pools' = [pools EXCEPT ![id] = nextPool + 1]
  /\ poolStatus' = [poolStatus EXCEPT ![nextPool + 1] = "live"]
  /\ store' = [store EXCEPT !.connectedIds = @ \cup {id}, !.activeConnectionId = id]
  /\ UNCHANGED <<statusBar, timers, measures>>

\* useAppStore.ts:190-196, client.ts:36-42  disconnectFromDb after its await
disconnectFromDb(id) ==
  /\ EffectsFlushed
  /\ isConnected(id)
  /\ poolStatus' = EndPool(poolStatus, getPool(id))
  /\ pools' = [pools EXCEPT ![id] = NoPool]
  /\ store' = [store EXCEPT !.connectedIds = @ \ {id},
                            !.activeConnectionId = IF @ = id THEN 0 ELSE @]
  /\ UNCHANGED <<statusBar, timers, measures, nextPool>>

\* useAppStore.ts:128-131  the user picks a connection in the sidebar or the
\* command palette
setActiveConnection(id) ==
  /\ EffectsFlushed
  /\ store.activeConnectionId # id
  /\ store' = [store EXCEPT !.activeConnectionId = id]
  /\ UNCHANGED <<statusBar, timers, measures, pools, poolStatus, nextPool>>

NextStatus ==
  /\ \/ \E id \in ConnIds : connectToDb(id)
     \/ \E id \in ConnIds : disconnectFromDb(id)
     \/ \E id \in ConnIds : setActiveConnection(id)
     \/ LatencyEffect
     \/ Unmount
     \/ Mount
     \/ \E t \in 1..Len(timers) : TimerFires(t)
     \/ \E i \in 1..Len(measures) : MeasureResumes(i)
  /\ UNCHANGED <<pc, op, arg, loc, snap, qfail, res, rpcVars, browserVars, historyVars>>

SpecStatus == InitStatus /\ [][NextStatus]_vars

\* =================================================================== claims
\* --------------------------------------------------------------------- C1
\* C1: under any interleaving of connect and disconnect calls, once no call
\* is in progress every pool that was opened and not ended is the pool the
\* registry holds (the registry holds one pool per id): none is left dangling.
C1_NoDanglingPool == NoCallInProgress => OpenPools \subseteq Registered

\* --------------------------------------------------------------------- C2
\* C2: connect registers the new pool only after its liveness check
\* succeeded (a registered pool was never merely constructed), and a connect
\* that failed threw and leaves no pool registered for its id, also when a
\* pool for that id was registered before the call.
C2_RegisterAfterLiveness ==
  /\ \A i \in ConnIds : isConnected(i) => poolStatus[pools[i]] # "created"
  /\ \A c \in Calls :
       (op[c] = "connect" /\ pc[c] = "done")
         => /\ poolStatus[loc[c]] = "created" => res[c] = "threw"
            /\ res[c] = "threw" => ~isConnected(arg[c])
            /\ res[c] = "ok" => pools[arg[c]] = loc[c]

\* A connect on an id that had a pool has failed.
C2_Witness ==
  \E c \in Calls :
    op[c] = "connect" /\ pc[c] = "done" /\ res[c] = "threw" /\ HadPool(c)

\* --------------------------------------------------------------------- C3
TestStepOf(c) ==
  \/ TestStart(c)
  \/ TestConnected(c)
  \/ TestConnectFail(c)
  \/ \E ok \in BOOLEAN : TestQueryDone(c, ok)
  \/ TestFinish(c)

\* C3: no step of testConnection changes the registry; when it completes it
\* has returned (success or failure, never thrown), its pool has been ended
\* and is not registered.
C3_TestLeavesRegistryAlone ==
  /\ [][\A c \in Calls : TestStepOf(c) => pools' = pools]_vars
  /\ [](\A c \in Calls :
         (op[c] = "testConnection" /\ pc[c] = "done")
           => /\ res[c] \in {"success", "failure"}
              /\ poolStatus[loc[c]] = "ended"
              /\ loc[c] \notin Registered)

\* A test whose query failed has returned while some pool is registered.
C3_Witness ==
  \E c \in Calls :
    /\ op[c] = "testConnection" /\ pc[c] = "done"
    /\ res[c] = "failure" /\ qfail[c]
    /\ Registered # {}

\* --------------------------------------------------------------------- C4
LatencyStepOf(c) ==
  \/ \E id \in ConnIds : LatencyStart(c, id)
  \/ \E ok \in BOOLEAN : LatencyDone(c, ok)

\* C4: getLatency never throws; it returns null when no pool is registered
\* for the id and null when the probe fails; no step of it changes the
\* registry or any pool.
C4_LatencyNeverThrows ==
  /\ [][\A c \in Calls :
          LatencyStepOf(c) => (pools' = pools /\ poolStatus' = poolStatus)]_vars
  /\ [](\A c \in Calls :
         (op[c] = "getLatency" /\ pc[c] = "done")
           => /\ res[c] \in {"null", "number"}
              /\ ~HadPool(c) => res[c] = "null"
              /\ qfail[c] => res[c] = "null")

\* A probe on a registered pool has failed.
C4_Witness ==
  \E c \in Calls :
    op[c] = "getLatency" /\ pc[c] = "done" /\ HadPool(c) /\ qfail[c]

\* --------------------------------------------------------------------- C5
\* C5: when disconnectAll completes the registry is empty, end() has been
\* called on every pool that was registered when it started, and it has not
\* failed, also when some end() rejected.
C5_DisconnectAllClears ==
  \A c \in Calls :
    (op[c] = "disconnectAll" /\ pc[c] = "done")
      => /\ pools = EmptyRegistry
         /\ \A p \in RegisteredAtStart(c) : poolStatus[p] = "ended"
         /\ res[c] = "ok"

\* disconnectAll has completed with pools registered at its start and a
\* rejected end().
C5_Witness ==
  \E c \in Calls :
    /\ op[c] = "disconnectAll" /\ pc[c] = "done"
    /\ RegisteredAtStart(c) # {} /\ qfail[c]

\* --------------------------------------------------------------------- C6
\* C6: disconnect(id) with no pool registered for id completes at once
\* without failing and changes nothing; a completed disconnect(id) has not
\* failed and leaves id absent and every other id as it was.  (A second
\* disconnect(id) therefore starts with id absent and is the no-op.)
C6_DisconnectIdempotent ==
  /\ [][\A c \in Calls : \A id \in ConnIds :
          (DisconnectStart(c, id) /\ ~isConnected(id))
            => /\ pc'[c] = "done" /\ res'[c] = "ok"
               /\ pools' = pools /\ poolStatus' = poolStatus]_vars
  /\ [](\A c \in Calls :
         (op[c] = "disconnect" /\ pc[c] = "done")
           => /\ res[c] = "ok"
              /\ pools = [snap[c] EXCEPT ![arg[c]] = NoPool])

\* disconnect of an absent id has completed while another id is connected.
C6_Witness ==
  \E c \in Calls :
    /\ op[c] = "disconnect" /\ pc[c] = "done" /\ ~HadPool(c)
    /\ \E i \in ConnIds : isConnected(i)

\* --------------------------------------------------------------------- C7
DataHandlers ==
  {"fetchTable", "searchTable", "insertRow", "updateRow", "deleteRows",
   "getPrimaryKeys"}

\* C7: a data handler that runs for a connection id without a registered
\* pool fails with the not-connected error, has sent no statement, and leaves
\* the table as it was.
C7_NotConnectedFailsFast ==
  /\ [][(reply' # NoReply /\ ~isConnected(reply'.conn)) => tbl' = tbl]_vars
  /\ []((reply.name \in DataHandlers /\ ~isConnected(reply.conn))
          => (reply.outcome = "NotConnected" /\ reply.sent = 0))

\* updateRow was called for an unconnected id while the table has rows.
C7_Witness ==
  /\ reply.name = "updateRow" /\ ~isConnected(reply.conn)
  /\ tbl # <<>>

\* --------------------------------------------------------------------- C8
\* the number of rows of the table that satisfy filter w
Satisfying(w) == Cardinality({i \in 1..Len(tbl) : WhereHolds(w, tbl[i])})

\* C8: a successful fetchTable returns total = the number of rows satisfying
\* the filter (whatever limit and offset are) and
\* rows.length = min(limit, total - offset) when offset < total, else 0;
\* hence rows.length <= limit.
C8_FetchWindow ==
  (reply.name = "fetchTable" /\ reply.outcome = "ok")
    => /\ reply.total = Satisfying(reply.where)
       /\ Len(reply.rows) =
            IF reply.offset < reply.total
              THEN Min(reply.limit, reply.total - reply.offset)
              ELSE 0
       /\ Len(reply.rows) <= reply.limit

\* A filtered fetch returned a partial page: the filter excludes a row and
\* fewer rows than the limit remain.
C8_Witness ==
  /\ reply.name = "fetchTable" /\ reply.outcome = "ok"
  /\ reply.where # NoWhere /\ reply.total < Len(tbl)
  /\ reply.rows # <<>> /\ Len(reply.rows) < reply.limit

\* --------------------------------------------------------------------- C9
\* text contains term, compared case-insensitively
Contains(text, term) ==
  \E i \in 0..(Len(text) - Len(term)) :
    \A j \in 1..Len(term) : Lower(text[i + j]) = Lower(term[j])

RowContains(row, term) ==
  \E c \in SearchCols : Contains(CastText(row, c), term)

StrictlyIncreasing(seq) == \A i, j \in 1..Len(seq) : i < j => seq[i] < seq[j]

\* C9: searchTable returns strictly increasing global indices; the row that
\* fetchTable returns at offset G, for every returned G and the same orderBy,
\* contains the term in a searchable column; and no row containing the term
\* is left out.
C9_SearchIndicesAddressMatches ==
  (reply.name = "searchTable" /\ reply.outcome = "ok")
    => /\ StrictlyIncreasing(reply.matchingRows)
       /\ \A k \in 1..Len(reply.matchingRows) :
            \A f \in FetchTableReplies(tbl, reply.conn, 1, reply.matchingRows[k],
                                       reply.orderBy, NoWhere) :
              /\ Len(f.rows) = 1
              /\ RowContains(f.rows[1], reply.term)
       /\ Len(reply.matchingRows) =
            Cardinality({i \in 1..Len(tbl) : RowContains(tbl[i], reply.term)})

\* -------------------------------------------------------------------- C10
\* the save and delete flows in flight: the only handlers that call
\* insertRow, updateRow or deleteRows
WriteFlows(ts) ==
  SelectSeq(ts, LAMBDA t : t.kind \in {"handleSaveAll", "confirmDelete"})

\* a staging or browsing step: a gesture that edits a cell, selects, sorts,
\* filters, searches or pages, or the arrival of a fetch or search reply
BrowseStep ==
  \/ BrowseGesture
  \/ \E i \in 1..Len(tasks) : FetchDone(i) \/ SearchDone(i)

\* the step changes the backend table, or starts or advances a flow that writes
Touched == tbl' # tbl \/ WriteFlows(tasks') # WriteFlows(tasks)

DeleteFlows(ts) == SelectSeq(ts, LAMBDA t : t.kind = "confirmDelete")

\* a confirmDelete flow has returned in this step
DeleteFlowEnds == Len(DeleteFlows(tasks')) < Len(DeleteFlows(tasks))

\* C11: on a table without a primary key a confirmed delete is rejected: no
\* flow ever reaches the deleteRows call; the step in which the flow returns
\* leaves the backend table and the displayed page, with its total, as they
\* were, and, the key lookup having answered with the empty list, raises the
\* "No primary key" toast.
C11_NoKeyDeleteRejected ==
  [][pkCols = <<>> =>
       /\ \A k \in 1..Len(tasks') : tasks'[k].pc # "deleteRows"
       /\ DeleteFlowEnds =>
            /\ tbl' = tbl
            /\ tableData' = tableData
            /\ GetPrimaryKeysReply(TabConn).outcome = "ok" =>
                 toast'.title = "No primary key"]_vars

\* a delete of selected rows has just been rejected for want of a key
C11_Witness ==
  /\ pkCols = <<>>
  /\ isConnected(TabConn)
  /\ toast.title = "No primary key"
  /\ ~ui.showDeleteDialog
  /\ ~ui.deleting
  /\ ui.selectedRows # <<>>
  /\ DeleteFlows(tasks) = <<>>
  /\ tableData.total = Len(tbl)

\* ----------------------------------------------------------------- C12
\* the rows of t that differ, in some key column, from each of the first n
\* key tuples
Surviving(t, primaryKeys, tuples, n) ==
  SelectSeq(t, LAMBDA r :
    \A k \in 1..n : \E j \in 1..Len(primaryKeys) :
      r[primaryKeys[j]] # tuples[k][primaryKeys[j]])

\* C12: deleteRows sends one DELETE per element of pkValuesList, in list
\* order; each removes exactly the rows equal to the element in every
\* primary-key column (after a rejected DELETE the earlier ones stay
\* applied and no later one is sent); the count returned is the number of
\* elements.
C12_DeleteByWholeKey ==
  [][reply'.name = "deleteRows" =>
       LET n == Len(reply'.pkValuesList)
           done == IF reply'.outcome = "ok" THEN n
                   ELSE IF reply'.outcome = "error" THEN reply'.sent - 1
                   ELSE 0
       IN /\ reply'.outcome = "ok" => reply'.sent = n /\ reply'.deleted = n
          /\ reply'.outcome = "error" => reply'.sent \in 1..n
          /\ reply'.outcome = "NotConnected" => reply'.sent = 0
          /\ tbl' = Surviving(tbl, reply'.primaryKeys, reply'.pkValuesList, done)]_vars

\* a call with the two-column key and two key tuples has returned, and a row
\* that shares only one key column with a tuple is still in the table
C12_Witness ==
  /\ reply.name = "deleteRows"
  /\ reply.outcome = "ok"
  /\ reply.primaryKeys = <<"id", "grp">>
  /\ reply.deleted = 2
  /\ \E i \in 1..Len(tbl) :
       /\ tbl[i].id = reply.pkValuesList[1].id
       /\ tbl[i].grp # reply.pkValuesList[1].grp

\* ----------------------------------------------------------------- C13
\* row r equals the key tuple in every key column
WholeKeyEquals(r, primaryKeys, tuple) ==
  \A j \in 1..Len(primaryKeys) : r[primaryKeys[j]] = tuple[primaryKeys[j]]

\* C13: a successful updateRow keeps the number and order of rows, gives the
\* rows equal to pkValues in every primary-key column the values of `updates`
\* in exactly the columns of `updates`, and leaves every other row and column
\* as it was; a call that does not succeed, and so every call with an empty
\* primary-key list, changes nothing.
C13_UpdateByWholeKey ==
  [][reply'.name = "updateRow" =>
       /\ reply'.primaryKeys = <<>> => reply'.outcome # "ok"
       /\ reply'.outcome # "ok" => tbl' = tbl
       /\ reply'.outcome = "ok" =>
            /\ Len(tbl') = Len(tbl)
            /\ \A i \in 1..Len(tbl), c \in ColSet :
                 tbl'[i][c] =
                   IF /\ WholeKeyEquals(tbl[i], reply'.primaryKeys, reply'.pkValues)
                      /\ c \in DOMAIN reply'.updates
                     THEN reply'.updates[c]
                   ELSE tbl[i][c]]_vars

\* an update by the two-column key has set txt in the row it names while a
\* second row with the same id and another grp is in the table
C13_Witness ==
  /\ reply.name = "updateRow"
  /\ reply.outcome = "ok"
  /\ reply.primaryKeys = <<"id", "grp">>
  /\ DOMAIN reply.updates = {"txt"}
  /\ \E i, j \in 1..Len(tbl) :
       /\ WholeKeyEquals(tbl[i], reply.primaryKeys, reply.pkValues)
       /\ tbl[i].txt = reply.updates.txt
       /\ tbl[j].id = reply.pkValues.id
       /\ tbl[j].grp # reply.pkValues.grp
       /\ tbl[j].txt # reply.updates.txt

\* ----------------------------------------------------------------- C14
RECURSIVE NextTimes(_, _, _)
\* the pointer after k calls of searchNext on a list of n matches
NextTimes(idx, n, k) ==
  IF k = 0 THEN idx ELSE searchNextIdx(NextTimes(idx, n, k - 1), n)

\* the index arithmetic of searchNext and searchPrev, for every list length
\* the table allows and every pointer from -1 on
MatchPointerArithmetic ==
  \A n \in 1..Len(BrowserTable) :
    /\ \A idx \in -1..(n - 1) :
         /\ searchNextIdx(idx, n) = (idx + 1) % n
         /\ searchPrevIdx(idx, n) = (idx - 1 + n) % n
         /\ searchNextIdx(idx, n) \in 0..(n - 1)
         /\ searchPrevIdx(idx, n) \in 0..(n - 1)
    /\ searchNextIdx(-1, n) = 0
    /\ \A idx \in 0..(n - 1) : NextTimes(idx, n, n) = idx

\* Enter (next) or Shift+Enter (previous) pressed on a finished search
MatchNavigation(shiftKey) ==
  /\ ui.filterMode = "search"
  /\ ui.matchRows # <<>>
  /\ ui.searchTerm = ui.filterInput
  /\ FilterEnter(shiftKey)

\* C14: with n > 0 matches, next moves the pointer to (pointer + 1) mod n and
\* previous to (pointer - 1 + n) mod n and the match list stays as it is, so
\* the pointer of a non-empty list is always in 0..n-1; next from -1 gives 0
\* and n nexts give the starting pointer again; with no matches next and
\* previous change nothing.
C14_MatchPointerCycles ==
  /\ [](/\ MatchPointerArithmetic
        /\ ui.matchRows # <<>> => ui.matchIdx \in 0..(Len(ui.matchRows) - 1)
        /\ ui.matchRows = <<>> =>
             \A step \in {-1, 1} :
               searchStep(ui, tasks, step) = [ui |-> ui, tasks |-> tasks])
  /\ [][\A shiftKey \in BOOLEAN :
          MatchNavigation(shiftKey) =>
            /\ ui'.matchRows = ui.matchRows
            /\ ui'.matchIdx =
                 (ui.matchIdx + (IF shiftKey THEN -1 ELSE 1)) % Len(ui.matchRows)]_vars

\* a navigation step on a list of two matches has moved the pointer to the
\* second match, which is on the next page: that page is being fetched
C14_Witness ==
  /\ ui.filterMode = "search"
  /\ Len(ui.matchRows) = 2
  /\ ui.matchIdx = 1
  /\ ui.page = 0
  /\ \E k \in 1..Len(tasks) :
       /\ tasks[k].kind = "fetchPage"
       /\ tasks[k].pageNum = ui.matchRows[2] \div PAGE_SIZE
       /\ tasks[k].pageNum # ui.page

\* ----------------------------------------------------------------- C15
\* a search over the table under ordering `sort` is in flight
SearchInFlight(ts, sort) ==
  \E k \in 1..Len(ts) : ts[k].kind = "runSearch" /\ ts[k].sort = sort

\* C15: a sort toggle that changes the sort state leaves no match list of
\* the previous ordering to navigate: the list is empty afterwards, or a
\* search under the new ordering has been started.
C15_SortInvalidatesSearch ==
  [][\A col \in SortCols :
       (handleSort(col) /\ ui'.sortState # ui.sortState) =>
         \/ ui'.matchRows = <<>>
         \/ SearchInFlight(tasks', ui'.sortState)]_vars

\* ----------------------------------------------------------------- C16
\* the statement the suspended fetch sent is rejected
FetchFails(t) ==
  \E r \in FetchTableReplies(tbl, TabConn, PAGE_SIZE, t.pageNum * PAGE_SIZE,
                             t.sort, t.filter) : r.outcome # "ok"

\* the message the rejected fetch carries
FetchError(t) ==
  ErrorMessage(CHOOSE r \in FetchTableReplies(tbl, TabConn, PAGE_SIZE,
                                              t.pageNum * PAGE_SIZE, t.sort, t.filter) :
                 r.outcome # "ok")

\* the failed fetch was answered inline and nothing displayed was disturbed
FilterErrorShown(t) ==
  /\ ui'.filterError = FetchError(t)
  /\ tableData' = tableData
  /\ ui'.page = ui.page
  /\ ui'.selectedRows = ui.selectedRows

PendingState(u) == <<u.pendingEdits, u.pendingNewRow, u.newRowValues>>

\* this step calls fetchPage for the page that is current
FetchesCurrentPage ==
  /\ Len(tasks') = Len(tasks) + 1
  /\ tasks'[Len(tasks')] = FetchTask(ui.page, ui.sortState, ui.activeFilter)

BatchItems(t) ==
  (IF DOMAIN t.newRow # {} THEN <<InsertItem>> ELSE <<>>)
    \o [k \in 1..Len(t.edits) |-> RowItem(ParseInt(t.edits[k].key))]

IsPrefix(a, b) == Len(a) <= Len(b) /\ SubSeq(b, 1, Len(a)) = a

\* the save flow at position i reaches the end of handleSaveAll in this step
SaveEnds(i) ==
  /\ tasks[i].kind = "handleSaveAll"
  /\ Len(tasks') = Len(tasks)
  /\ tasks'[i].kind = "fetchPage"

\* C18: in a batch save on a table with a primary key the insert of the
\* draft row comes first and the buffer entries follow in turn, none left
\* out whatever the outcome of the earlier items; when the save ends every
\* item has been attempted, and the failures reported are items of the
\* batch, one per failed item.
C18_EveryItemAttempted ==
  /\ [](\A i \in 1..Len(tasks) :
          tasks[i].kind = "handleSaveAll" =>
            IsPrefix(tasks[i].attempted, BatchItems(tasks[i])))
  /\ [][\A i \in 1..Len(tasks) :
          (pkCols # <<>> /\ SaveEnds(i)) =>
            /\ tasks[i].attempted = BatchItems(tasks[i])
            /\ \A k \in 1..Len(toast'.errors) :
                 \E m \in 1..Len(tasks[i].attempted) :
                   toast'.errors[k] = tasks[i].attempted[m]
            /\ toast'.title = "Saved" =>
                 toast'.count[1] + toast'.count[2] = Len(tasks[i].attempted)]_vars

\* ----------------------------------------------------------------- C19
\* the batch saves in flight (the saving flag admits one at a time)
Saves(ts) == SelectSeq(ts, LAMBDA t : t.kind = "handleSaveAll")

\* the batch save in flight returns in this step
SaveFlowEnds == Saves(tasks) # <<>> /\ Saves(tasks') = <<>>

\* this step calls fetchPage for the page the save was started on
RefetchIssued(t) ==
  \E k \in 1..Len(tasks') :
    /\ tasks'[k] = FetchTask(t.page, ui'.sortState, t.filter)
    /\ k <= Len(tasks) => tasks[k].kind = "handleSaveAll"

\* every item of the batch was sent and none was rejected
EveryItemSucceeded(t) ==
  /\ t.attempted = BatchItems(t)
  /\ toast'.title = "Saved"

\* C19: the step in which a batch save returns issues the refetch of its
\* page and resets the saving flag, whether every item succeeded, some failed
\* or the primary-key lookup failed; it empties the edit buffer and the
\* new-row draft if every item succeeded, and leaves them as they are if not.
C19_SaveEndsWithRefetch ==
  [][SaveFlowEnds =>
       LET t == Saves(tasks)[1]
       IN /\ ~ui'.saving
          /\ RefetchIssued(t)
          /\ IF EveryItemSucceeded(t)
               THEN PendingState(ui') = PendingState(UiAtMount)
             ELSE PendingState(ui') = PendingState(ui)]_vars

\* ----------------------------------------------------------------- C20
\* the deleteRows call of the flow at position i is rejected at a DELETE
\* after the first one, and rows deleted before it are gone from the table
DeleteFailsPartway(i) ==
  /\ tasks[i].kind = "confirmDelete"
  /\ tasks[i].pc = "deleteRows"
  /\ tbl' # tbl
  /\ \E failAt \in 2..PAGE_SIZE : DeleteRowsDone(i, failAt)

\* C20: when a batch delete fails partway the browser raises the failure
\* toast and calls fetchPage for the page the delete was confirmed on, so
\* that the page and the total are read again from the backend.
C20_PartialDeleteRefetches ==
  [][\A i \in 1..Len(tasks) :
       DeleteFailsPartway(i) =>
         /\ toast'.title = "Delete failed"
         /\ \E k \in 1..Len(tasks') :
              tasks'[k] = FetchTask(tasks[i].page, ui'.sortState, tasks[i].filter)]_vars

\* ----------------------------------------------------------------- C21
\* the displayed page changes: a fetch of another page has succeeded
PageNavigates == ui'.page # ui.page

\* the Refresh button, or the dialog's Discard & Refresh, starts a fetch
RefreshStarts ==
  /\ Len(tasks') > Len(tasks)
  /\ handleRefresh \/ handleRefreshDiscard

\* C21: the pending-edit buffer is empty once a page navigation has completed
\* and once a refresh has been started without saving.
C21_LeavingDiscardsBuffer ==
  [][/\ PageNavigates => ui'.pendingEdits = <<>>
     /\ RefreshStarts => ui'.pendingEdits = <<>>]_vars

\* ----------------------------------------------------------------- C22
\* ids are handed out in the order of the add calls, so newest-first by
\* insertion is strictly decreasing ids
NewestFirst(history) ==
  \A i, j \in 1..Len(history) : i < j => history[i].id > history[j].id

EntriesOf(history) == {history[k] : k \in 1..Len(history)}

HistoryWithinCap ==
  /\ Len(queryHistory) <= MAX_HISTORY
  /\ NewestFirst(queryHistory)

\* what an add and a clear of one connection do to the stored list
HistoryStepEffect ==
  /\ historyReply'.name = "add" =>
       LET newEntry == historyReply'.value[1]
       IN /\ newEntry.id \notin {h.id : h \in EntriesOf(queryHistory)}
          /\ queryHistory' =
               IF Len(queryHistory) = MAX_HISTORY
                 THEN <<newEntry>> \o SubSeq(queryHistory, 1, MAX_HISTORY - 1)
               ELSE <<newEntry>> \o queryHistory
  /\ historyReply'.name = "clear" /\ historyReply'.connectionId # <<>> =>
       EntriesOf(queryHistory') =
         {h \in EntriesOf(queryHistory) :
            h.connectionId # historyReply'.connectionId[1]}
  /\ historyReply'.name = "list" => queryHistory' = queryHistory

\* C22: the stored history never exceeds MAX_HISTORY entries and is ordered
\* newest-first by insertion; an add at the cap drops exactly the oldest
\* entry; clear(connectionId) removes exactly that connection's entries and
\* keeps the others in order.
C22_HistoryRing == []HistoryWithinCap /\ [][HistoryStepEffect]_vars

\* an add at the cap has dropped the oldest entry, and the last call cleared
\* one connection and left entries of the other
C22_Witness ==
  /\ historyReply.name = "clear"
  /\ historyReply.connectionId # <<>>
  /\ queryHistory # <<>>
  /\ queryHistory[Len(queryHistory)].id > 1
  /\ Len(queryHistory) < uuids - 1

\* ----------------------------------------------------------------- C23
\* the navigations to global row G that are suspended at the await `at`
Navigating(ts, at, G) ==
  Len(SelectSeq(ts, LAMBDA t : t.pc = at /\ t.globalRowIdx = G))

GlobalRows(ts) == {ts[k].globalRowIdx : k \in 1..Len(ts)} \ {-1}

\* a navigation reaches doScrollToRow only on the page of its row or from
\* the end of its fetch of that page
ScrollWaitsForFetch ==
  \A G \in GlobalRows(tasks') :
    Navigating(tasks', "requestAnimationFrame", G)
      > Navigating(tasks, "requestAnimationFrame", G) =>
        \/ ui.page = G \div PAGE_SIZE
        \/ Navigating(tasks', "fetchTable", G) < Navigating(tasks, "fetchTable", G)

\* the scroll is to the row's local index, on the row's page
ScrollOnTargetPage ==
  \A i \in 1..Len(tasks) :
    ScrollDone(i) =>
      /\ ui'.scrollToRow = tasks[i].globalRowIdx % PAGE_SIZE
      /\ ui.page = tasks[i].globalRowIdx \div PAGE_SIZE

\* C23: navigating to global match index G, a needed fetch of page
\* floor(G / PAGE_SIZE) is awaited before the scroll is issued, the scroll
\* target is G mod PAGE_SIZE, and the page displayed when the scroll is
\* issued is floor(G / PAGE_SIZE).
C23_ScrollAfterFetch == [][ScrollWaitsForFetch /\ ScrollOnTargetPage]_vars

\* ----------------------------------------------------------------- C24
Searches(ts) == SelectSeq(ts, LAMBDA t : t.kind = "runSearch")

\* Enter in the filter input applies the search: search mode, and not a step
\* through the matches of the term already searched
SearchApplied ==
  /\ ui.filterMode = "search"
  /\ ~(ui.matchRows # <<>> /\ ui.searchTerm = ui.filterInput)
  /\ \E shiftKey \in BOOLEAN : FilterEnter(shiftKey)

\* the first k with rows[k] >= offset, counted from 0; no such k: 0
IsFirstMatchFrom(idx, rows, offset) ==
  IF \E k \in 1..Len(rows) : rows[k] >= offset
    THEN /\ rows[idx + 1] >= offset
         /\ \A k \in 1..idx : rows[k] < offset
  ELSE idx = 0

\* a navigation to global row G has been started
NavigatesTo(ts, G) ==
  \E k \in 1..Len(ts) :
    /\ ts[k].globalRowIdx = G
    /\ ts[k].pc \in {"fetchTable", "requestAnimationFrame"}
    /\ ts[k].pc = "fetchTable" => ts[k].pageNum = G \div PAGE_SIZE

SearchApplyEffect ==
  SearchApplied =>
    IF Trim(ui.filterInput) = <<>>
      THEN /\ tasks' = tasks
           /\ ui'.matchRows = <<>> /\ ui'.matchIdx = -1 /\ ~ui'.searchDone
    ELSE /\ Searches(tasks') = Append(Searches(tasks), Searches(tasks')[Len(Searches(tasks'))])
         /\ Searches(tasks')[Len(Searches(tasks'))].term = Trim(ui.filterInput)

SearchReplyEffect ==
  \A i \in 1..Len(tasks) :
    SearchDone(i) /\ toast'.title # "Search error" =>
      IF ui'.matchRows # <<>>
        THEN /\ ui'.matchIdx \in 0..(Len(ui'.matchRows) - 1)
             /\ IsFirstMatchFrom(ui'.matchIdx, ui'.matchRows, ui.page * PAGE_SIZE)
             /\ NavigatesTo(tasks', ui'.matchRows[ui'.matchIdx + 1])
      ELSE ui'.matchIdx = -1 /\ ui'.searchDone

\* the same, the mark being the one the apply made: the reply leaves it as
\* it is, and between apply and reply only a gesture takes it back
SearchReplyKeepsMark ==
  /\ \A i \in 1..Len(tasks) :
       SearchDone(i) /\ toast'.title # "Search error" =>
         IF ui'.matchRows # <<>>
           THEN /\ ui'.matchIdx \in 0..(Len(ui'.matchRows) - 1)
                /\ IsFirstMatchFrom(ui'.matchIdx, ui'.matchRows, ui.page * PAGE_SIZE)
                /\ NavigatesTo(tasks', ui'.matchRows[ui'.matchIdx + 1])
         ELSE ui'.matchIdx = -1 /\ ui'.searchDone = ui.searchDone
  /\ SearchApplied /\ Trim(ui.filterInput) # <<>> => ui'.searchDone
  /\ ui.searchDone /\ ~ui'.searchDone => gestures' # gestures

C24_NoMatchWitness ==
  /\ ui.filterMode = "search"
  /\ ui.searchTerm # <<>>
  /\ ui.searchDone
  /\ ui.matchRows = <<>> /\ ui.matchIdx = -1
  /\ Searches(tasks) = <<>>
  /\ isConnected(TabConn)

\* ----------------------------------------------------------------- C25
\* what the claim's cycle makes of a sort state when col's header is clicked
CycleNext(sortState, col) ==
  IF sortState = NoOrder \/ sortState.column # col THEN [column |-> col, dir |-> "ASC"]
  ELSE IF sortState = [column |-> col, dir |-> "ASC"] THEN [column |-> col, dir |-> "DESC"]
  ELSE NoOrder

\* the sort states three clicks on col's header lead through
ThreeClicks(sortState, col) ==
  LET one == toggleSort(sortState, col)
      two == toggleSort(one, col)
  IN <<one, two, toggleSort(two, col)>>

\* the fetches in flight that a header click could have issued
SortFetches(ts, sort, filter) ==
  Len(SelectSeq(ts, LAMBDA t : t = FetchTask(0, sort, filter)))

\* C25: a click on the header of column C moves the sort state along
\* unsorted -> C ASC -> C DESC -> unsorted, or to C ASC from a sort on
\* another column; three clicks on C from unsorted or from a sort on C lead
\* back to where they started; every click issues a fetch of page 0 with the
\* new sort and the active filter as it was.
C25_SortCycle ==
  [][\A col \in SortCols :
       handleSort(col) =>
         /\ ui'.sortState = CycleNext(ui.sortState, col)
         /\ ui.sortState.column \in {"", col} =>
              ThreeClicks(ui.sortState, col)[3] = ui.sortState
         /\ ThreeClicks(NoOrder, col) =
              <<[column |-> col, dir |-> "ASC"], [column |-> col, dir |-> "DESC"], NoOrder>>
         /\ ui'.activeFilter = ui.activeFilter
         /\ SortFetches(tasks', ui'.sortState, ui.activeFilter)
              = SortFetches(tasks, ui'.sortState, ui.activeFilter) + 1]_vars

\* the second click on one column, with a filter active, has made the sort
\* descending and its fetch of page 0 under that filter is in flight
C25_Witness ==
  /\ ui.sortState.dir = "DESC"
  /\ ui.activeFilter # <<>>
  /\ \E k \in 1..Len(tasks) : tasks[k] = FetchTask(0, ui.sortState, ui.activeFilter)

\* ----------------------------------------------------------------- C26
\* what a page change must leave alone
PageChangeFrame(u) ==
  <<u.sortState, u.activeFilter, u.filterMode, PendingState(u)>>

\* the fetchTable reply of the fetch at position i has arrived
FetchReturns(i) ==
  /\ tasks[i].kind = "fetchPage"
  /\ gestures' = gestures
  /\ tasks' = fetchPageReturns(tasks, i)

\* C26: a click on a pagination button changes neither sort state, active
\* filter, filter mode nor the pending changes and issues the fetch of the
\* new page with the current sort and filter; when a fetch succeeds the page
\* is the fetched one, the selection is empty, and sort state, active filter,
\* filter mode, pending edits and the new-row draft are as they were.
C26_PageChangeFrame ==
  [][/\ \A delta \in {-1, 1} :
          gestures' # gestures /\ PageChange(delta) =>
            /\ PageChangeFrame(ui') = PageChangeFrame(ui)
            /\ ui'.page = ui.page /\ ui'.selectedRows = ui.selectedRows
            /\ tasks' = Append(tasks, FetchTask(ui.page + delta, ui.sortState,
                                                ui.activeFilter))
     /\ \A i \in 1..Len(tasks) :
          FetchReturns(i) =>
            /\ PageChangeFrame(ui') = PageChangeFrame(ui)
            /\ \/ ui'.page = tasks[i].pageNum /\ ui'.selectedRows = <<>>
               \/ FetchFails(tasks[i])]_vars

\* the second page is displayed under a filter, with the edit staged on the
\* first page still pending and nothing selected
C26_Witness ==
  /\ ui.page = 1
  /\ ui.activeFilter # <<>>
  /\ ui.pendingEdits # <<>>
  /\ ui.selectedRows = <<>>
  /\ tasks = <<>>

\* ----------------------------------------------------------------- C27
\* a click on a row's checkbox or on the header checkbox
SelectionGesture ==
  \/ \E idx \in 0..(PAGE_SIZE - 1), selected \in BOOLEAN : handleRowSelect(idx, selected)
  \/ \E checked \in BOOLEAN : handleSelectAll(checked)

\* C27: selecting or deselecting a row, or all rows, changes nothing but the
\* selection set: no fetch or other call is issued and page, sort, filter,
\* search state, the displayed page's data and the pending edits are as they
\* were; every fetch that succeeds leaves the selection empty.
C27_SelectionIsLocal ==
  [][/\ gestures' # gestures /\ SelectionGesture =>
          /\ ui' = [ui EXCEPT !.selectedRows = ui'.selectedRows]
          /\ tasks' = tasks
          /\ tableData' = tableData
          /\ tbl' = tbl
          /\ reply' = reply
     /\ \A i \in 1..Len(tasks) :
          FetchReturns(i) => ui'.selectedRows = <<>> \/ FetchFails(tasks[i])]_vars

\* a row of the second page is selected while an edit is pending
C27_Witness ==
  /\ ui.selectedRows # <<>>
  /\ ui.page = 1
  /\ ui.pendingEdits # <<>>
  /\ tasks = <<>>

\* ----------------------------------------------------------------- C28
\* the draft row is closed, or the values entered in it are gone
DraftDropped ==
  \/ ui.pendingNewRow /\ ~ui'.pendingNewRow
  \/ ui.newRowValues # <<>> /\ ui'.newRowValues = <<>>

\* the grid's cancel, the Discard button or the dialog's Discard & Refresh
ExplicitCancel ==
  /\ gestures' # gestures
  /\ CancelNewRow \/ handleDiscardAll \/ handleRefreshDiscard

\* a batch save whose insertRow call succeeded ends with all writes done
SavedWithInsert ==
  /\ toast'.title = "Saved"
  /\ toast'.count[1] = 1

\* a batch save that captured a draft without values ends with all writes done
SavedEmptyDraft ==
  /\ toast'.title = "Saved"
  /\ toast'.count[1] = 0
  /\ \/ gestures' # gestures /\ ui.newRowValues = <<>>
     \/ \E i \in 1..Len(tasks) :
          tasks[i].kind = "handleSaveAll" /\ tasks[i].newRow = <<>>

NoKeySaves(ts) ==
  SelectSeq(ts, LAMBDA t : t.kind = "handleSaveAll" /\ t.edits # <<>> /\ pkCols = <<>>)

\* none of these flows has sent an updateRow
NoUpdateSent ==
  \A k \in 1..Len(NoKeySaves(tasks')) :
    \A j \in 1..Len(NoKeySaves(tasks')[k].attempted) :
      NoKeySaves(tasks')[k].attempted[j].item # "Row"

\* none of these flows has sent an insertRow
NoInsertSent ==
  \A k \in 1..Len(NoKeySaves(tasks')) :
    \A j \in 1..Len(NoKeySaves(tasks')[k].attempted) :
      NoKeySaves(tasks')[k].attempted[j] # InsertItem

\* when the key lookup of such a flow is answered, the flow ends with the
\* error toast naming the missing key
MissingKeyReported ==
  (/\ NoKeySaves(tasks) # <<>>
   /\ NoKeySaves(tasks') = <<>>
   /\ isConnected(TabConn)) =>
     /\ toast'.title = "Some changes failed"
     /\ \E k \in 1..Len(toast'.errors) : toast'.errors[k] = NoPkItem

\* C29: a batch save with pending edits on a table without a primary key is
\* aborted before any mutation attempt: it sends neither insertRow nor
\* updateRow, and it reports the missing key.
C29_NoKeySaveSendsNothing ==
  [][NoInsertSent /\ NoUpdateSent /\ MissingKeyReported]_vars

\* ----------------------------------------------------------------- C30
\* a fetch in flight stays in flight until its own reply arrives
NoFetchDropped ==
  \A i \in 1..Len(tasks) :
    tasks[i].kind = "fetchPage" =>
      \/ \E k \in 1..Len(tasks') :
           [tasks'[k] EXCEPT !.overlapped = FALSE] = [tasks[i] EXCEPT !.overlapped = FALSE]
      \/ FetchReturns(i)

\* the displayed data change only when a reply arrives
ShownUntilNextReply ==
  tableData' # tableData \/ ui'.page # ui.page =>
    \E i \in 1..Len(tasks) : FetchReturns(i)

\* the reply of the fetch at position i is what is displayed after it arrived
ReplyShown(i) ==
  /\ ui'.page = tasks[i].pageNum
  /\ \E r \in FetchTableReplies(tbl, TabConn, PAGE_SIZE, tasks[i].pageNum * PAGE_SIZE,
                                tasks[i].sort, tasks[i].filter) :
       /\ r.outcome = "ok"
       /\ tableData' = [loaded |-> TRUE, rows |-> r.rows, total |-> r.total,
                         filter |-> tasks[i].filter]

\* C30: no fetch is cancelled or dropped, and of two fetches that were in
\* flight together the reply that arrives second, whichever request was
\* issued first, leaves its TableData and page displayed until the next
\* reply arrives.
C30_LastReplyShown ==
  [][/\ NoFetchDropped
     /\ ShownUntilNextReply
     /\ \A i \in 1..Len(tasks) :
          FetchReturns(i) /\ tasks[i].overlapped => ReplyShown(i)]_vars

\* C30 for replies that may be rejections: the same, except that a rejected
\* reply leaves the TableData and the page of the last successful reply
\* displayed.
C30_LastSuccessfulReplyShown ==
  [][/\ NoFetchDropped
     /\ ShownUntilNextReply
     /\ \A i \in 1..Len(tasks) :
          FetchReturns(i) /\ tasks[i].overlapped =>
            \/ ReplyShown(i)
            \/ /\ tableData' = tableData
               /\ ui'.page = ui.page
               /\ FetchFails(tasks[i])]_vars

\* two sort clicks sent an ascending and then a descending fetch; both have
\* completed, the ascending one last: its rows are displayed under a
\* descending header
C30_Witness ==
  /\ tasks = <<>>
  /\ isConnected(TabConn)
  /\ ui.activeFilter = <<>>
  /\ ui.sortState = [column |-> "id", dir |-> "DESC"]
  /\ tableData.loaded
  /\ Len(tableData.rows) = 2
  /\ tableData.rows[1].id < tableData.rows[2].id

\* ----------------------------------------------------------------- C31
\* the timers that can still fire
LiveTimers == {t \in 1..Len(timers) : timers[t].live}

\* at most one timer can fire
AtMostOneTimer == Cardinality(LiveTimers) <= 1

\* a timer that can fire is the one the mounted status bar holds in its ref,
\* started by its last effect for the connection that effect saw active
TimerServesEffect ==
  \A t \in LiveTimers :
    /\ statusBar.mounted
    /\ statusBar.latencyInterval = t
    /\ statusBar.deps = [activeConnectionId |-> timers[t].conn, isConnected |-> TRUE]

\* the effect ran because the active connection changed or was disconnected,
\* or the status bar was torn down
EffectOrTeardown ==
  statusBar'.deps # statusBar.deps \/ (statusBar.mounted /\ ~statusBar'.mounted)

\* this step cancels every timer that was started before it
PreviousTimersCancelled ==
  \A t \in 1..Len(timers) : ~timers'[t].live

\* this step calls measure
ProbeStarts == Len(measures') > Len(measures)

\* the connection the probe started by this step asks about
ProbedConn == measures'[Len(measures')].conn

\* C31: at any time at most one latency timer can fire; when the active
\* connection changes or is disconnected, or the status bar is torn down, the
\* effect cancels the timer started before, and from then on every probe that
\* is started is for the connection the effect last saw active.
C31_OneLatencyTimer ==
  /\ [](AtMostOneTimer /\ TimerServesEffect)
  /\ [][/\ EffectOrTeardown => PreviousTimersCancelled
        /\ ProbeStarts =>
             /\ statusBar'.mounted
             /\ ProbedConn = statusBar'.deps.activeConnectionId]_vars

\* the timer started for connection 1 is cancelled, the active connection is
\* 2, and the probe in flight was started by the timer of connection 2
C31_Witness ==
  /\ Len(timers) = 2
  /\ timers[1] = [conn |-> 1, live |-> FALSE]
  /\ timers[2] = [conn |-> 2, live |-> TRUE]
  /\ store.activeConnectionId = 2
  /\ 1 \in store.connectedIds
  /\ \E i \in 1..Len(measures) : measures[i] = Measure(2, 2)

\* ----------------------------------------------------------------- C32
\* the row of the save's snapshot that the updateRow in flight names by its
\* primary key
TargetRow(t) == t.data[ParseInt(t.edits[t.idx].key) + 1]

\* C32: every updateRow a batch save has in flight names the row into which
\* the pending edit it carries was typed, whatever page changes, sort
\* toggles, filter changes, refetches or earlier saves came in between.
C32_EditTargetsItsRow ==
  \A i \in 1..Len(tasks) :
    tasks[i].kind = "handleSaveAll" /\ tasks[i].pc = "updateRow" =>
      TargetRow(tasks[i]).id = tasks[i].edits[tasks[i].idx].row

\* ----------------------------------------------------------------- C33
\* the item is one of the sequence
Among(item, items) == \E k \in 1..Len(items) : items[k] = item

\* the save that ends with this step sent the item and its call succeeded
Applied(t, item) == Among(item, t.attempted) /\ ~Among(item, toast'.errors)

\* C33: when a batch save ends with some items failed, the items whose calls
\* succeeded have left the buffers, so that saving again sends only what has
\* not been applied yet: the draft is closed if its insertRow succeeded, and
\* an entry is gone from the edit buffer if its updateRow succeeded.
C33_AppliedAtMostOnce ==
  [][SaveFlowEnds /\ toast'.title = "Some changes failed" =>
       LET t == Saves(tasks)[1]
       IN /\ Applied(t, InsertItem) => ~ui'.pendingNewRow
          /\ \A k \in 1..Len(t.edits) :
               Applied(t, RowItem(ParseInt(t.edits[k].key))) =>
                 ~Among(t.edits[k], ui'.pendingEdits)]_vars

\* ----------------------------------------------------------------- C34
\* what is displayed is what fetchTable answers for the request
ShowsFetchOf(pageNum, sort, filter) ==
  \E r \in FetchTableReplies(tbl, TabConn, PAGE_SIZE, pageNum * PAGE_SIZE, sort, filter) :
    /\ r.outcome = "ok"
    /\ tableData = [loaded |-> TRUE, rows |-> r.rows, total |-> r.total,
                    filter |-> filter]

SearchReturns(i) ==
  /\ tasks[i].kind = "runSearch"
  /\ gestures' = gestures
  /\ \/ tasks' = RemoveAt(tasks, i)
     \/ Len(tasks') = Len(tasks) /\ tasks'[i].kind # "runSearch"

\* the search in flight was sent for another term than the box holds now, or
\* the box is no longer a search box
Outdated(t) == t.term # Trim(ui.searchTerm) \/ ui.filterMode # "search"

\* C35: a searchTable reply that arrives after the user has edited or cleared
\* the term, or switched the filter mode, installs no matches and starts no
\* navigation, so that a non-empty match list is always the one computed for
\* the term in the box.
C35_StaleSearchIgnored ==
  [][\A i \in 1..Len(tasks) :
       SearchReturns(i) /\ Outdated(tasks[i]) =>
         /\ ui'.matchRows = ui.matchRows
         /\ ui'.matchIdx = ui.matchIdx
         /\ tasks' = RemoveAt(tasks, i)]_vars

C37_PageInRange ==
  (tableData.loaded /\ \A k \in 1..Len(tasks) : tasks[k].kind # "fetchPage") =>
    ui.page = 0 \/ ui.page < totalPages

\* ----------------------------------------------------------------- C38
\* every index of the selection names a row of the snapshot
IndicesOf(selection, rows) ==
  \A k \in 1..Len(selection) : selection[k] \in 0..(Len(rows) - 1)

SearchModeHasNoFilter == ui.filterMode = "search" => ui.activeFilter = <<>>

\* in search mode the page displayed came from a fetch without a filter
SearchModeShowsUnfiltered ==
  (ui.filterMode = "search" /\ tableData.loaded) => tableData.filter = <<>>

\* C39: whenever the filter mode is search, the active filter is empty and
\* the displayed TableData is the reply to a fetch without a filter, so that
\* the row indices searchTable returns address rows of the pages displayed.
C39_SearchOverUnfiltered == SearchModeHasNoFilter /\ SearchModeShowsUnfiltered

====
